---- MODULE Spec2Model ----
(***************************************************************************)
(* State-machine model of couchbase::io::mcbp_session                      *)
(* (ext/couchbase/io/mcbp_session.hxx): the session object, its two        *)
(* message handlers, the opaque registry (command_handlers_), the three    *)
(* write buffers, the timers and the asynchronous operations of the        *)
(* session's io context, plus producer threads calling                     *)
(* write_and_subscribe.                                                    *)
(*                                                                         *)
(* Every member function is an operator from a world record (one field per *)
(* member, named as in the source) to the world record after the call, so  *)
(* that nested calls (complete -> invoke_bootstrap_handler -> stop) are    *)
(* composed as the code composes them.  An action reads the variables into *)
(* a world record, applies the handler and installs the result.            *)
(***************************************************************************)
EXTENDS Naturals, Sequences, FiniteSets

\* ------------------------------------------------------------------ bounds
\* number of write_and_subscribe calls made by the producers
MaxSends == 2
\* number of expiries of the configuration refresh (heartbeat) timer
MaxRefresh == 1
\* std::uint32_t values (opaque_, the opaque of a frame) are pairs <<high, low>>
\* of 16-bit halves, so that the counter keeps its 32-bit width
Half == 65536

\* ------------------------------------------------------------------ inputs
\* producer threads calling write_and_subscribe
Threads == {"t1"}
\* opaques the producers pass to write_and_subscribe / cancel
UserOpaques == {<<0, 101>>, <<0, 102>>}
\* opcodes of the frames the producers send
UserOps == {"get"}
\* error passed to cancel() by the layer above
CancelErrors == {"ambiguous_timeout"}
\* the candidate list of origin_ and the size of a resolution result
Nodes == {1, 2}
Endpoints == {1}
\* bucket_name_ of the session: "" stands for std::nullopt
BucketNames == {"", "b"}
\* revisions carried by the configurations the peer sends
Revs == {1, 2}
\* results of sasl_.step (cbsasl collaborator)
SaslCodes == {"OK", "CONTINUE", "FAIL"}

NoConfig == [rev |-> 0, set |-> FALSE]
Config(r) == [rev |-> r, set |-> TRUE]

Ok == "ok"

BootstrapOps ==
    {"hello", "sasl_list_mechs", "sasl_auth", "sasl_step", "get_error_map",
     "select_bucket", "get_cluster_config"}

\* status values the peer answers with, by opcode of the request
StatusesFor(op) ==
    CASE op = "hello" -> {"success", "internal"}
      [] op = "sasl_list_mechs" -> {"success", "internal"}
      [] op = "sasl_auth" -> {"success", "auth_continue", "auth_error"}
      [] op = "sasl_step" -> {"success", "auth_continue", "auth_error"}
      [] op = "get_error_map" -> {"success", "internal"}
      [] op = "select_bucket" -> {"success", "no_access", "internal"}
      [] op = "get_cluster_config" -> {"success", "no_bucket", "internal"}
      [] OTHER -> {"success", "not_found"}

\* ------------------------------------------------------------------ state
VARIABLES
    \* mcbp_session members
    stopped_, bootstrapped_, authenticated_, bucket_selected_, supports_gcccp_,
    bucket_name_, supported_features_, handler_, bootstrap_handler_,
    command_handlers_, opaque_, output_buffer_, pending_buffer_,
    writing_buffer_, config_, errmap_, reading_, endpoints_, connect_it_,
    collection_cache_,
    \* the values next_opaque() has returned, in order
    issued,
    \* an asynchronous write was started while another one was outstanding
    overlap,
    \* message handler members (stopped_ and session_ of the current handler)
    handler_stopped_, handler_session_,
    \* origin_ cursor, socket_.is_open()
    origin_next_, socket_open_,
    \* the number of candidates in the list of origin_
    origin_nodes_,
    \* what the continuation passed to write_and_subscribe does when it is
    \* first invoked, for the calls whose continuation re-enters the session:
    \* "send" (write_and_subscribe with the opaque of its call) or "cancel"
    \* (cancel of that opaque)
    continuations,
    \* timers: "idle", "wait" (async_wait outstanding), "expired" (callback queued)
    bootstrap_deadline_, retry_backoff_, heartbeat_timer_,
    \* connection_deadline_: expiry and the number of waiting / queued check_deadline
    connection_deadline_,
    \* outstanding asynchronous operations: "idle", "wait", "aborted"
    resolve_op, connect_op, read_op, write_op,
    \* producer threads: position inside write_and_subscribe and its arguments
    pc, arg,
    \* history: frames handed to async_write, frames answered by the peer,
    \* continuation invocations, bootstrap continuation invocations, counters
    wire, answered, fired, done, sends, noop_calls, refreshes, crashed,
    started

vars ==
    <<stopped_, bootstrapped_, authenticated_, bucket_selected_, supports_gcccp_,
      bucket_name_, supported_features_, handler_, bootstrap_handler_,
      command_handlers_, opaque_, output_buffer_, pending_buffer_,
      writing_buffer_, config_, errmap_, reading_, endpoints_, connect_it_,
      handler_stopped_, handler_session_, origin_next_, socket_open_,
      bootstrap_deadline_, retry_backoff_, heartbeat_timer_,
      connection_deadline_, resolve_op, connect_op, read_op, write_op,
      pc, arg, wire, answered, fired, done, sends, noop_calls, refreshes,
      crashed, started, collection_cache_, issued, overlap, origin_nodes_,
      continuations>>

\* the current state as one record
World ==
    [stopped_ |-> stopped_, bootstrapped_ |-> bootstrapped_,
     authenticated_ |-> authenticated_, bucket_selected_ |-> bucket_selected_,
     supports_gcccp_ |-> supports_gcccp_, bucket_name_ |-> bucket_name_,
     supported_features_ |-> supported_features_, handler_ |-> handler_,
     bootstrap_handler_ |-> bootstrap_handler_,
     command_handlers_ |-> command_handlers_, opaque_ |-> opaque_,
     output_buffer_ |-> output_buffer_, pending_buffer_ |-> pending_buffer_,
     writing_buffer_ |-> writing_buffer_, config_ |-> config_,
     errmap_ |-> errmap_, reading_ |-> reading_, endpoints_ |-> endpoints_,
     handler_stopped_ |-> handler_stopped_,
     handler_session_ |-> handler_session_, origin_next_ |-> origin_next_,
     socket_open_ |-> socket_open_, bootstrap_deadline_ |-> bootstrap_deadline_,
     retry_backoff_ |-> retry_backoff_, heartbeat_timer_ |-> heartbeat_timer_,
     connection_deadline_ |-> connection_deadline_, resolve_op |-> resolve_op,
     connect_op |-> connect_op, read_op |-> read_op, write_op |-> write_op,
     pc |-> pc, arg |-> arg, wire |-> wire, answered |-> answered,
     fired |-> fired, done |-> done, sends |-> sends,
     noop_calls |-> noop_calls, refreshes |-> refreshes, crashed |-> crashed,
     started |-> started, connect_it_ |-> connect_it_,
     collection_cache_ |-> collection_cache_, issued |-> issued,
     overlap |-> overlap, origin_nodes_ |-> origin_nodes_,
     continuations |-> continuations]

\* the next state is the world record w
Install(w) ==
    /\ stopped_' = w.stopped_
    /\ bootstrapped_' = w.bootstrapped_
    /\ authenticated_' = w.authenticated_
    /\ bucket_selected_' = w.bucket_selected_
    /\ supports_gcccp_' = w.supports_gcccp_
    /\ bucket_name_' = w.bucket_name_
    /\ supported_features_' = w.supported_features_
    /\ handler_' = w.handler_
    /\ bootstrap_handler_' = w.bootstrap_handler_
    /\ command_handlers_' = w.command_handlers_
    /\ opaque_' = w.opaque_
    /\ output_buffer_' = w.output_buffer_
    /\ pending_buffer_' = w.pending_buffer_
    /\ writing_buffer_' = w.writing_buffer_
    /\ config_' = w.config_
    /\ errmap_' = w.errmap_
    /\ reading_' = w.reading_
    /\ endpoints_' = w.endpoints_
    /\ handler_stopped_' = w.handler_stopped_
    /\ handler_session_' = w.handler_session_
    /\ origin_next_' = w.origin_next_
    /\ socket_open_' = w.socket_open_
    /\ bootstrap_deadline_' = w.bootstrap_deadline_
    /\ retry_backoff_' = w.retry_backoff_
    /\ heartbeat_timer_' = w.heartbeat_timer_
    /\ connection_deadline_' = w.connection_deadline_
    /\ resolve_op' = w.resolve_op
    /\ connect_op' = w.connect_op
    /\ read_op' = w.read_op
    /\ write_op' = w.write_op
    /\ pc' = w.pc
    /\ arg' = w.arg
    /\ wire' = w.wire
    /\ answered' = w.answered
    /\ fired' = w.fired
    /\ done' = w.done
    /\ sends' = w.sends
    /\ noop_calls' = w.noop_calls
    /\ refreshes' = w.refreshes
    /\ crashed' = w.crashed
    /\ started' = w.started
    /\ connect_it_' = w.connect_it_
    /\ collection_cache_' = w.collection_cache_
    /\ issued' = w.issued
    /\ overlap' = w.overlap
    /\ origin_nodes_' = w.origin_nodes_
    /\ continuations' = w.continuations

\* ------------------------------------------------ helpers on sequences
Range(q) == {q[i] : i \in 1..Len(q)}

\* the number of invocations of continuation id recorded in log q
Count(q, id) == Cardinality({i \in 1..Len(q) : q[i].id = id})

\* invoke the continuation of send number id with error ec
\* (by: the code path that made the call)
RECURSIVE Invoke(_, _, _, _)

\* invoke bootstrap_handler_(ec, cfg)
InvokeBootstrap(w, ec, cfg) ==
    [w EXCEPT !.done = Append(@, [ec |-> ec, cfg |-> cfg])]

\* asio timer cancel(): an outstanding wait completes with operation_aborted
\* (its callback returns at once and is not a step); a callback already
\* queued by an expiry stays queued
timer_cancel(t) == IF t = "wait" THEN "idle" ELSE t

Frame(op, opq, id) == [op |-> op, opq |-> opq, id |-> id]

\* ------------------------------------------------ mcbp_session members
\* faulty variant of next_opaque: the low half wraps without a carry
next_opaque_no_carry(w) == <<w.opaque_[1], (w.opaque_[2] + 1) % Half>>

\* the value of ++opaque_ on std::atomic<std::uint32_t>
next_opaque(w) ==
    IF w.opaque_[2] + 1 < Half THEN <<w.opaque_[1], w.opaque_[2] + 1>>
    ELSE <<(w.opaque_[1] + 1) % Half, 0>>

\* the session after a call of next_opaque(): one atomic read-modify-write
after_next_opaque(w) ==
    [w EXCEPT !.opaque_ = next_opaque(w), !.issued = Append(@, next_opaque(w))]

write(w, buf) ==
    IF w.stopped_ THEN w
    ELSE [w EXCEPT !.output_buffer_ = Append(@, buf)]

do_read(w) ==
    IF w.stopped_ THEN w
    ELSE IF w.reading_ THEN w
    ELSE [w EXCEPT !.reading_ = TRUE, !.read_op = "wait"]

\* faulty variant of do_write: the test of writing_buffer_ is missing
do_write_unguarded(w) ==
    IF w.stopped_ THEN w
    ELSE IF w.output_buffer_ = <<>> THEN w
    ELSE [w EXCEPT !.writing_buffer_ = w.output_buffer_,
                   !.output_buffer_ = <<>>,
                   !.wire = @ \o w.output_buffer_,
                   !.overlap = @ \/ w.write_op = "wait",
                   !.write_op = "wait"]

do_write(w) ==
    IF w.stopped_ THEN w
    ELSE IF w.writing_buffer_ # <<>> \/ w.output_buffer_ = <<>> THEN w
    ELSE [w EXCEPT !.writing_buffer_ = w.output_buffer_,
                   !.output_buffer_ = <<>>,
                   !.wire = @ \o w.output_buffer_,
                   !.overlap = @ \/ w.write_op = "wait",
                   !.write_op = "wait"]

flush(w) == IF w.stopped_ THEN w ELSE do_write(w)

write_and_flush(w, buf) ==
    IF w.stopped_ THEN w ELSE flush(write(w, buf))

\* a request built by the session itself: opaque from next_opaque(), then write
write_request(w, op) ==
    LET o == next_opaque(w)
    IN  write(after_next_opaque(w), Frame(op, o, 0))

\* message_handler::stop of the current handler
\* (bootstrap_handler::stop, normal_handler::stop)
handler_stop(w) ==
    IF w.handler_stopped_ THEN w
    ELSE [w EXCEPT !.handler_stopped_ = TRUE,
                   !.heartbeat_timer_ =
                       IF w.handler_ = "normal" THEN timer_cancel(@) ELSE @,
                   !.handler_session_ = FALSE]

\* order of std::uint32_t keys
OpaqueLeq(a, b) == a[1] < b[1] \/ (a[1] = b[1] /\ a[2] <= b[2])

\* faulty variant of the loop of stop(): only the first registered
\* continuation is invoked
drain_first_only(w, keys) ==
    IF keys = {} THEN w
    ELSE LET k == CHOOSE x \in keys : \A y \in keys : OpaqueLeq(x, y)
         IN  Invoke(w, w.command_handlers_[k], "request_canceled", "stop")

\* the registered continuations, in the iteration order of the std::map
RECURSIVE drain(_, _)
drain(w, keys) ==
    IF keys = {} THEN w
    ELSE LET k == CHOOSE x \in keys : \A y \in keys : OpaqueLeq(x, y)
         IN  drain(Invoke(w, w.command_handlers_[k], "request_canceled", "stop"),
                   keys \ {k})

EmptyMap == [x \in {} |-> 0]

\* faulty variant of stop(): the test of stopped_ is missing
stop_unguarded(w) ==
    LET w1 == [w EXCEPT
                 !.stopped_ = TRUE,
                 !.bootstrap_deadline_ = "idle",
                 !.connection_deadline_ =
                     [@ EXCEPT !.waiting = FALSE, !.queued = FALSE],
                 !.retry_backoff_ = "idle",
                 !.resolve_op = "idle",
                 !.socket_open_ = FALSE,
                 !.connect_op = "idle",
                 !.read_op = "idle",
                 !.write_op = "idle"]
        w2 == IF ~w1.bootstrapped_ /\ w1.bootstrap_handler_
              THEN [InvokeBootstrap(w1, "request_canceled", NoConfig)
                      EXCEPT !.bootstrap_handler_ = FALSE]
              ELSE w1
        w3 == IF w2.handler_ # "none" THEN handler_stop(w2) ELSE w2
        w4 == drain(w3, DOMAIN w3.command_handlers_)
    IN  [w4 EXCEPT !.command_handlers_ = EmptyMap,
                   !.heartbeat_timer_ = "idle"]

stop(w) ==
    IF w.stopped_ THEN w
    ELSE
      LET w1 == [w EXCEPT
                   !.stopped_ = TRUE,
                   !.bootstrap_deadline_ = "idle",
                   !.connection_deadline_ =
                       [@ EXCEPT !.waiting = FALSE, !.queued = FALSE],
                   !.retry_backoff_ = "idle",
                   !.resolve_op = "idle",
                   !.socket_open_ = FALSE,
                   !.connect_op = "idle",
                   !.read_op = "idle",
                   !.write_op = "idle"]
          w2 == IF ~w1.bootstrapped_ /\ w1.bootstrap_handler_
                THEN [InvokeBootstrap(w1, "request_canceled", NoConfig)
                        EXCEPT !.bootstrap_handler_ = FALSE]
                ELSE w1
          w3 == IF w2.handler_ # "none" THEN handler_stop(w2) ELSE w2
          w4 == drain(w3, DOMAIN w3.command_handlers_)
      IN  [w4 EXCEPT !.command_handlers_ = EmptyMap,
                     !.heartbeat_timer_ = "idle"]

\* faulty variant of cancel(): the entry is not erased
cancel_keeps_entry(w, opaque, ec) ==
    IF w.stopped_ THEN w
    ELSE IF opaque \in DOMAIN w.command_handlers_
    THEN Invoke(w, w.command_handlers_[opaque], ec, "cancel")
    ELSE w

\* faulty variant of cancel(): the test of stopped_ is missing
cancel_unguarded(w, opaque, ec) ==
    IF opaque \in DOMAIN w.command_handlers_
    THEN LET w1 == Invoke(w, w.command_handlers_[opaque], ec, "cancel")
         IN  [w1 EXCEPT !.command_handlers_ =
                  [o \in (DOMAIN @) \ {opaque} |-> @[o]]]
    ELSE w

cancel(w, opaque, ec) ==
    IF w.stopped_ THEN w
    ELSE IF opaque \in DOMAIN w.command_handlers_
    THEN LET w1 == Invoke(w, w.command_handlers_[opaque], ec, "cancel")
         IN  [w1 EXCEPT !.command_handlers_ =
                  [o \in (DOMAIN @) \ {opaque} |-> @[o]]]
    ELSE w

\* write_and_subscribe(opaque, data, handler) called from inside a
\* continuation: the whole call runs on the thread that runs the continuation
write_and_subscribe_inline(w, opaque, op) ==
    LET id == Len(w.sends) + 1
        fresh == opaque \notin DOMAIN w.command_handlers_
        direct == w.bootstrapped_ /\ w.socket_open_
        call == [t |-> "continuation", opq |-> opaque, op |-> op,
                 reg |-> IF w.stopped_ THEN "sync"
                         ELSE IF fresh THEN "new" ELSE "dup",
                 route |-> IF w.stopped_ THEN ""
                           ELSE IF direct THEN "write" ELSE "pend"]
        w1 == [w EXCEPT !.sends = Append(@, call)]
        w2 == IF fresh
              THEN [w1 EXCEPT !.command_handlers_ =
                      [o \in (DOMAIN @) \cup {opaque} |->
                          IF o = opaque THEN id ELSE @[o]]]
              ELSE w1
    IN  IF w.stopped_ THEN Invoke(w1, id, "request_canceled", "send")
        ELSE IF direct THEN write_and_flush(w2, Frame(op, opaque, id))
        ELSE [w2 EXCEPT !.pending_buffer_ = Append(@, Frame(op, opaque, id))]

\* the call handler(ec, msg) of a continuation: the call is recorded, then
\* the body of the continuation runs
Invoke(w, id, ec, by) ==
    LET w1 == [w EXCEPT !.fired = Append(@, [id |-> id, ec |-> ec, by |-> by])]
    IN  IF id \in DOMAIN w.continuations /\ Count(w.fired, id) = 0
        THEN IF w.continuations[id] = "send"
             THEN write_and_subscribe_inline(w1, w.sends[id].opq, w.sends[id].op)
             ELSE cancel(w1, w.sends[id].opq, ec)
        ELSE w1

\* faulty variant of update_configuration: the revisions are not compared
update_configuration_always(w, config) ==
    IF w.stopped_ THEN w ELSE [w EXCEPT !.config_ = config]

\* faulty variant of update_configuration: only the first configuration is
\* stored
update_configuration_first_only(w, config) ==
    IF w.stopped_ THEN w
    ELSE IF ~w.config_.set THEN [w EXCEPT !.config_ = config]
    ELSE w

update_configuration(w, config) ==
    IF w.stopped_ THEN w
    ELSE IF ~w.config_.set \/ config.rev > w.config_.rev
    THEN [w EXCEPT !.config_ = config]
    ELSE w

\* mcbp_session::update_collection_uid, with collection_cache::update
update_collection_uid(w, path, uid) ==
    IF w.stopped_ THEN w
    ELSE [w EXCEPT !.collection_cache_ =
            [q \in (DOMAIN @) \cup {path} |-> IF q = path THEN uid ELSE @[q]]]

\* std::error_code of a response, by opcode and status
\* faulty variant of map_status_code: only the rule for exists is kept, every
\* other status maps to no error
map_status_code_exists_only(opcode, status) ==
    IF status = "exists"
    THEN IF opcode = "insert" THEN "document_exists" ELSE "cas_mismatch"
    ELSE Ok

map_status_code(opcode, status) ==
    CASE status \in {"success", "subdoc_multi_path_failure", "subdoc_success_deleted",
                     "subdoc_multi_path_failure_deleted"} -> Ok
      [] status \in {"not_found", "not_stored"} -> "document_not_found"
      [] status = "exists" ->
            IF opcode = "insert" THEN "document_exists" ELSE "cas_mismatch"
      [] status = "too_big" -> "value_too_large"
      [] status \in {"invalid", "xattr_invalid", "subdoc_invalid_combo"} ->
            "invalid_argument"
      [] status = "delta_bad_value" -> "delta_invalid"
      [] status = "no_bucket" -> "bucket_not_found"
      [] status = "locked" -> "document_locked"
      [] status \in {"auth_stale", "auth_error", "no_access"} ->
            "authentication_failure"
      [] status \in {"not_supported", "unknown_command"} -> "unsupported_operation"
      [] status = "internal" -> "internal_server_failure"
      [] status \in {"busy", "temp_failure", "no_memory", "not_initialized"} ->
            "temporary_failure"
      [] status = "unknown_collection" -> "collection_not_found"
      [] status = "unknown_scope" -> "scope_not_found"
      [] status = "durability_invalid_level" -> "durability_level_not_available"
      [] status = "durability_impossible" -> "durability_impossible"
      [] status = "sync_write_in_progress" -> "durable_write_in_progress"
      [] status = "sync_write_ambiguous" -> "durability_ambiguous"
      [] status = "sync_write_re_commit_in_progress" ->
            "durable_write_re_commit_in_progress"
      [] status = "subdoc_path_not_found" -> "path_not_found"
      [] status = "subdoc_path_mismatch" -> "path_mismatch"
      [] status = "subdoc_path_invalid" -> "path_invalid"
      [] status = "subdoc_path_too_big" -> "path_too_big"
      [] status = "subdoc_doc_too_deep" -> "value_too_deep"
      [] status = "subdoc_value_cannot_insert" -> "value_invalid"
      [] status = "subdoc_doc_not_json" -> "document_not_json"
      [] status = "subdoc_num_range_error" -> "number_too_big"
      [] status = "subdoc_delta_invalid" -> "delta_invalid"
      [] status = "subdoc_path_exists" -> "path_exists"
      [] status = "subdoc_value_too_deep" -> "value_too_deep"
      [] status \in {"subdoc_xattr_invalid_flag_combo",
                     "subdoc_xattr_invalid_key_combo"} -> "xattr_invalid_key_combo"
      [] status = "subdoc_xattr_unknown_macro" -> "xattr_unknown_macro"
      [] status = "subdoc_xattr_unknown_vattr" -> "xattr_unknown_virtual_attribute"
      [] status = "subdoc_xattr_cannot_modify_vattr" ->
            "xattr_cannot_modify_virtual_attribute"
      [] OTHER -> "protocol_error"

\* faulty variant of normal_handler::fetch_config: the timer is not armed
\* again
fetch_config_once(w) ==
    IF w.handler_stopped_ \/ ~w.handler_session_ THEN w
    ELSE LET o == next_opaque(w)
         IN  write_and_flush(after_next_opaque(w),
                             Frame("get_cluster_config", o, 0))

\* normal_handler::fetch_config called with a success error code
fetch_config(w) ==
    IF w.handler_stopped_ \/ ~w.handler_session_ THEN w
    ELSE LET o == next_opaque(w)
             w1 == write_and_flush(after_next_opaque(w),
                                   Frame("get_cluster_config", o, 0))
         IN  [w1 EXCEPT !.heartbeat_timer_ = "wait"]

\* normal_handler::normal_handler, as the new current handler
normal_handler(w) ==
    LET w1 == [w EXCEPT !.handler_ = "normal",
                        !.handler_stopped_ = FALSE,
                        !.handler_session_ = TRUE,
                        !.heartbeat_timer_ = "idle"]
    IN  IF w1.supports_gcccp_ THEN fetch_config(w1) ELSE w1

RECURSIVE write_all(_, _)
write_all(w, bufs) ==
    IF bufs = <<>> THEN w ELSE write_all(write(w, Head(bufs)), Tail(bufs))

\* faulty variant of invoke_bootstrap_handler(): pending_buffer_ is written
\* back to front
invoke_bootstrap_handler_reversed(w, ec) ==
    LET w1 == IF ~w.bootstrapped_ /\ w.bootstrap_handler_
              THEN [InvokeBootstrap([w EXCEPT !.bootstrap_deadline_ = timer_cancel(@)],
                                    ec, w.config_)
                      EXCEPT !.bootstrap_handler_ = FALSE]
              ELSE w
    IN  IF ec # Ok THEN stop(w1)
        ELSE LET w2 == normal_handler([w1 EXCEPT !.bootstrapped_ = TRUE])
                 n == Len(w2.pending_buffer_)
             IN  IF w2.pending_buffer_ # <<>>
                 THEN flush([write_all(w2, [i \in 1..n |->
                                               w2.pending_buffer_[n + 1 - i]])
                               EXCEPT !.pending_buffer_ = <<>>])
                 ELSE w2

\* faulty variant of invoke_bootstrap_handler: the ready handler is not
\* installed
invoke_bootstrap_handler_keeps_handler(w, ec) ==
    LET w1 == IF ~w.bootstrapped_ /\ w.bootstrap_handler_
              THEN [InvokeBootstrap([w EXCEPT !.bootstrap_deadline_ = timer_cancel(@)],
                                    ec, w.config_)
                      EXCEPT !.bootstrap_handler_ = FALSE]
              ELSE w
    IN  IF ec # Ok THEN stop(w1)
        ELSE LET w2 == [w1 EXCEPT !.bootstrapped_ = TRUE]
             IN  IF w2.pending_buffer_ # <<>>
                 THEN flush([write_all(w2, w2.pending_buffer_)
                               EXCEPT !.pending_buffer_ = <<>>])
                 ELSE w2

\* faulty variant of invoke_bootstrap_handler: on an error the session is
\* stopped before the bootstrap continuation is looked at
invoke_bootstrap_handler_stops_first(w, ec) ==
    IF ec # Ok THEN stop(w)
    ELSE LET w1 == IF ~w.bootstrapped_ /\ w.bootstrap_handler_
                   THEN [InvokeBootstrap([w EXCEPT !.bootstrap_deadline_ =
                                                       timer_cancel(@)],
                                         ec, w.config_)
                           EXCEPT !.bootstrap_handler_ = FALSE]
                   ELSE w
             w2 == normal_handler([w1 EXCEPT !.bootstrapped_ = TRUE])
         IN  IF w2.pending_buffer_ # <<>>
             THEN flush([write_all(w2, w2.pending_buffer_)
                           EXCEPT !.pending_buffer_ = <<>>])
             ELSE w2

invoke_bootstrap_handler(w, ec) ==
    LET w1 == IF ~w.bootstrapped_ /\ w.bootstrap_handler_
              THEN [InvokeBootstrap([w EXCEPT !.bootstrap_deadline_ = timer_cancel(@)],
                                    ec, w.config_)
                      EXCEPT !.bootstrap_handler_ = FALSE]
              ELSE w
    IN  IF ec # Ok THEN stop(w1)
        ELSE LET w2 == normal_handler([w1 EXCEPT !.bootstrapped_ = TRUE])
             IN  IF w2.pending_buffer_ # <<>>
                 THEN flush([write_all(w2, w2.pending_buffer_)
                               EXCEPT !.pending_buffer_ = <<>>])
                 ELSE w2

\* bootstrap_handler::bootstrap_handler, as the new current handler
\* faulty variant of the constructor of bootstrap_handler: sasl_auth is
\* written before hello
bootstrap_handler_auth_first(w) ==
    LET w1 == [w EXCEPT !.handler_ = "bootstrap",
                        !.handler_stopped_ = FALSE,
                        !.handler_session_ = TRUE]
    IN  flush(write_request(write_request(write_request(w1, "sasl_auth"),
                                          "hello"), "sasl_list_mechs"))

bootstrap_handler(w) ==
    LET w1 == [w EXCEPT !.handler_ = "bootstrap",
                        !.handler_stopped_ = FALSE,
                        !.handler_session_ = TRUE]
    IN  flush(write_request(write_request(write_request(w1, "hello"),
                                          "sasl_list_mechs"), "sasl_auth"))

\* bootstrap_handler::complete
\* faulty variant of bootstrap_handler::complete: the error code is dropped
complete_without_error(w, ec) ==
    invoke_bootstrap_handler([w EXCEPT !.handler_stopped_ = TRUE], Ok)

complete(w, ec) ==
    invoke_bootstrap_handler([w EXCEPT !.handler_stopped_ = TRUE], ec)

\* bootstrap_handler::auth_success
\* faulty variant of bootstrap_handler::auth_success: authenticated_ is not
\* set
auth_success_unmarked(w) ==
    LET w2 == IF "xerror" \in w.supported_features_
              THEN write_request(w, "get_error_map") ELSE w
        w3 == IF w2.bucket_name_ # ""
              THEN write_request(w2, "select_bucket") ELSE w2
    IN  flush(write_request(w3, "get_cluster_config"))

auth_success(w) ==
    LET w1 == [w EXCEPT !.authenticated_ = TRUE]
        w2 == IF "xerror" \in w1.supported_features_
              THEN write_request(w1, "get_error_map") ELSE w1
        w3 == IF w2.bucket_name_ # ""
              THEN write_request(w2, "select_bucket") ELSE w2
    IN  flush(write_request(w3, "get_cluster_config"))

\* protocol::is_valid_client_opcode
is_valid_client_opcode(op) ==
    op \in {"get", "upsert", "insert", "replace", "remove", "hello",
            "sasl_list_mechs", "sasl_auth", "sasl_step", "select_bucket",
            "subdoc_multi_lookup", "subdoc_multi_mutation", "get_cluster_config",
            "get_error_map", "invalid", "get_collections_manifest"}

\* Expects(cond) before the rest of a function: a contract that does not
\* hold terminates the process
Expects(cond, w, rest) == IF cond THEN rest ELSE [w EXCEPT !.crashed = TRUE]

\* bootstrap_handler::handle; msg carries the fields of the response the code
\* reads, sasl is the result of sasl_.step on the payload
bootstrap_handle(w, msg, sasl) ==
    IF w.handler_stopped_ \/ ~w.handler_session_ THEN w
    ELSE Expects(is_valid_client_opcode(msg.op), w,
         CASE msg.op = "hello" ->
                IF msg.status = "success"
                THEN [w EXCEPT !.supported_features_ = msg.features]
                ELSE complete(w, "handshake_failure")
           [] msg.op = "sasl_list_mechs" ->
                IF msg.status # "success"
                THEN complete(w, "authentication_failure") ELSE w
           [] msg.op = "sasl_auth" ->
                IF msg.status = "success" THEN auth_success(w)
                ELSE IF msg.status = "auth_continue"
                THEN IF sasl = "OK" THEN auth_success(w)
                     ELSE IF sasl = "CONTINUE"
                     THEN write_and_flush(
                              after_next_opaque(w),
                              Frame("sasl_step", next_opaque(w), 0))
                     ELSE complete(w, "authentication_failure")
                ELSE complete(w, "authentication_failure")
           [] msg.op = "sasl_step" ->
                IF msg.status = "success" THEN auth_success(w)
                ELSE complete(w, "authentication_failure")
           [] msg.op = "get_error_map" ->
                IF msg.status = "success" THEN [w EXCEPT !.errmap_ = TRUE]
                ELSE complete(w, "protocol_error")
           [] msg.op = "select_bucket" ->
                IF msg.status = "success"
                THEN [w EXCEPT !.bucket_selected_ = TRUE]
                ELSE IF msg.status = "no_access"
                THEN complete([w EXCEPT !.bucket_selected_ = FALSE],
                              "bucket_not_found")
                ELSE complete(w, "bucket_not_found")
           [] msg.op = "get_cluster_config" ->
                IF msg.status = "success"
                THEN complete(update_configuration(w, Config(msg.rev)), Ok)
                ELSE IF msg.status = "no_bucket" /\ w.bucket_name_ = ""
                THEN complete(
                         update_configuration(
                             [w EXCEPT !.supports_gcccp_ = FALSE], Config(0)),
                         Ok)
                ELSE complete(w, "protocol_error")
           [] OTHER -> complete(w, "protocol_error"))

\* opcodes whose responses normal_handler::handle routes through the registry
RoutableOps ==
    {"get_collection_id", "get", "get_and_lock", "get_and_touch", "touch",
     "insert", "replace", "upsert", "remove", "observe", "unlock", "increment",
     "decrement", "subdoc_multi_lookup", "subdoc_multi_mutation"}

\* faulty variant of normal_handler::handle: the entry of a response is
\* erased after the continuation has run
normal_handle_erases_after(w, msg) ==
    IF w.handler_stopped_ \/ ~w.handler_session_ THEN w
    ELSE IF msg.magic \notin {"client_response", "alt_client_response"} THEN w
    ELSE IF msg.op = "get_cluster_config"
    THEN IF msg.status = "success"
         THEN update_configuration(w, Config(msg.rev)) ELSE w
    ELSE IF msg.op \in RoutableOps /\ msg.opq \in DOMAIN w.command_handlers_
    THEN LET w1 == Invoke(w, w.command_handlers_[msg.opq],
                          map_status_code(msg.op, msg.status), "response")
         IN  [w1 EXCEPT !.command_handlers_ =
                [o \in (DOMAIN @) \ {msg.opq} |-> @[o]]]
    ELSE w

\* faulty variant of normal_handler::handle: a response takes the last
\* registered continuation, whatever its opaque
normal_handle_last_entry(w, msg) ==
    IF w.handler_stopped_ \/ ~w.handler_session_ THEN w
    ELSE IF msg.magic \notin {"client_response", "alt_client_response"} THEN w
    ELSE IF msg.op = "get_cluster_config"
    THEN IF msg.status = "success"
         THEN update_configuration(w, Config(msg.rev)) ELSE w
    ELSE IF msg.op \in RoutableOps /\ w.command_handlers_ # EmptyMap
    THEN LET k == CHOOSE x \in DOMAIN w.command_handlers_ :
                     \A y \in DOMAIN w.command_handlers_ : OpaqueLeq(y, x)
             w1 == [w EXCEPT !.command_handlers_ =
                      [o \in (DOMAIN @) \ {k} |-> @[o]]]
         IN  Invoke(w1, w.command_handlers_[k],
                    map_status_code(msg.op, msg.status), "response")
    ELSE w

\* faulty variant of normal_handler::handle: the entry of a response is left
\* in the registry
normal_handle_keeps_entry(w, msg) ==
    IF w.handler_stopped_ \/ ~w.handler_session_ THEN w
    ELSE IF msg.magic \notin {"client_response", "alt_client_response"} THEN w
    ELSE IF msg.op = "get_cluster_config"
    THEN IF msg.status = "success"
         THEN update_configuration(w, Config(msg.rev)) ELSE w
    ELSE IF msg.op \in RoutableOps /\ msg.opq \in DOMAIN w.command_handlers_
    THEN Invoke(w, w.command_handlers_[msg.opq],
                map_status_code(msg.op, msg.status), "response")
    ELSE w

\* normal_handler::handle
\* faulty variant of normal_handler::handle: a notification is adopted
\* whatever bucket it names
normal_handle_any_bucket(w, msg) ==
    IF w.handler_stopped_ \/ ~w.handler_session_ THEN w
    ELSE CASE msg.magic \in {"client_response", "alt_client_response"} ->
                Expects(is_valid_client_opcode(msg.op), w,
                 CASE msg.op = "get_cluster_config" ->
                        IF msg.status = "success"
                        THEN update_configuration(w, Config(msg.rev)) ELSE w
                   [] msg.op \in RoutableOps ->
                        IF msg.opq \in DOMAIN w.command_handlers_
                        THEN LET id == w.command_handlers_[msg.opq]
                                 ec == map_status_code(msg.op, msg.status)
                                 w1 == [w EXCEPT !.command_handlers_ =
                                          [o \in (DOMAIN @) \ {msg.opq} |-> @[o]]]
                             IN  Invoke(w1, id, ec, "response")
                        ELSE w
                   [] OTHER -> w)
           [] msg.magic = "server_request" ->
                IF msg.op = "cluster_map_change_notification"
                THEN update_configuration(w, Config(msg.rev))
                ELSE w
           [] OTHER -> w

normal_handle(w, msg) ==
    IF w.handler_stopped_ \/ ~w.handler_session_ THEN w
    ELSE CASE msg.magic \in {"client_response", "alt_client_response"} ->
                Expects(is_valid_client_opcode(msg.op), w,
                 CASE msg.op = "get_cluster_config" ->
                        IF msg.status = "success"
                        THEN update_configuration(w, Config(msg.rev)) ELSE w
                   [] msg.op \in RoutableOps ->
                        IF msg.opq \in DOMAIN w.command_handlers_
                        THEN LET id == w.command_handlers_[msg.opq]
                                 ec == map_status_code(msg.op, msg.status)
                                 w1 == [w EXCEPT !.command_handlers_ =
                                          [o \in (DOMAIN @) \ {msg.opq} |-> @[o]]]
                             IN  Invoke(w1, id, ec, "response")
                        ELSE w
                   [] OTHER -> w)
           [] msg.magic = "server_request" ->
                IF msg.op = "cluster_map_change_notification"
                THEN IF \/ (msg.cfg_bucket = "" /\ msg.bucket = "")
                        \/ (w.bucket_name_ # "" /\ msg.bucket # ""
                            /\ w.bucket_name_ = msg.bucket)
                     THEN update_configuration(w, Config(msg.rev))
                     ELSE w
                ELSE w
           [] OTHER -> w

\* ------------------------------------------------ resolving and connecting
\* origin_.exhausted(), origin_.next_address(), origin_.restart()
origin_exhausted(w) == w.origin_next_ > w.origin_nodes_
\* faulty variant of origin_.next_address(): the cursor passes over a candidate
origin_next_address_skips(w) == [w EXCEPT !.origin_next_ = @ + 2]
origin_next_address(w) == [w EXCEPT !.origin_next_ = @ + 1]
origin_restart(w) == [w EXCEPT !.origin_next_ = 1]

\* steady_timer::expires_after / expires_at on connection_deadline_: a wait
\* that is outstanding is cancelled, a callback already queued stays queued
expires_after(cd) == [cd EXCEPT !.expiry = "future", !.waiting = FALSE]
expires_at_max(cd) == [cd EXCEPT !.expiry = "max", !.waiting = FALSE]
\* steady_timer::async_wait: completes at once when the expiry has passed
async_wait(cd) ==
    IF cd.expiry = "past" THEN [cd EXCEPT !.queued = TRUE]
    ELSE [cd EXCEPT !.waiting = TRUE]

initiate_bootstrap(w) ==
    IF w.stopped_ THEN w
    ELSE IF origin_exhausted(w) THEN [w EXCEPT !.retry_backoff_ = "wait"]
    ELSE [origin_next_address(w) EXCEPT !.resolve_op = "wait"]

bootstrap(w) ==
    initiate_bootstrap([w EXCEPT !.bootstrap_handler_ = TRUE,
                                 !.bootstrap_deadline_ = "wait",
                                 !.started = TRUE])

do_connect(w, it) ==
    IF w.stopped_ THEN w
    ELSE IF it <= w.endpoints_
    THEN [w EXCEPT !.connection_deadline_ = expires_after(@),
                   !.socket_open_ = TRUE,
                   !.connect_op = "wait",
                   !.connect_it_ = it]
    ELSE initiate_bootstrap(w)

on_resolve(w, ec, n) ==
    IF w.stopped_ THEN w
    ELSE IF ec # Ok THEN initiate_bootstrap(w)
    ELSE LET w1 == do_connect([w EXCEPT !.endpoints_ = n], 1)
         IN  [w1 EXCEPT !.connection_deadline_ = async_wait(expires_after(@))]

on_connect(w, ec) ==
    IF w.stopped_ THEN w
    ELSE IF ~w.socket_open_ \/ ec # Ok THEN do_connect(w, w.connect_it_ + 1)
    ELSE [bootstrap_handler(w) EXCEPT
            !.connection_deadline_ = expires_at_max(@)]

check_deadline(w) ==
    IF w.stopped_ THEN w
    ELSE LET w1 == IF w.connection_deadline_.expiry = "past"
                   THEN [w EXCEPT !.socket_open_ = FALSE,
                                  !.connect_op =
                                      IF @ = "wait" THEN "aborted" ELSE @,
                                  !.connection_deadline_ = expires_at_max(@)]
                   ELSE w
         IN  [w1 EXCEPT !.connection_deadline_ = async_wait(@)]

\* faulty variant of the bootstrap deadline lambda: bootstrap_handler_ is not
\* reset after the call
bootstrap_deadline_keeps_handler(w) ==
    IF w.stopped_ THEN w
    ELSE IF ~w.bootstrap_handler_ THEN [w EXCEPT !.crashed = TRUE]
    ELSE stop(InvokeBootstrap(w, "unambiguous_timeout", NoConfig))

\* faulty variant of the bootstrap deadline lambda: the session is stopped
\* without the call of bootstrap_handler_
bootstrap_deadline_only_stops(w) ==
    IF w.stopped_ THEN w
    ELSE IF ~w.bootstrap_handler_ THEN [w EXCEPT !.crashed = TRUE]
    ELSE stop(w)

\* the lambda bootstrap() passes to bootstrap_deadline_.async_wait, called
\* with a success error code; calling an empty std::function throws
\* std::bad_function_call out of the io context
bootstrap_deadline_expired(w) ==
    IF w.stopped_ THEN w
    ELSE IF ~w.bootstrap_handler_ THEN [w EXCEPT !.crashed = TRUE]
    ELSE stop([InvokeBootstrap(w, "unambiguous_timeout", NoConfig)
                 EXCEPT !.bootstrap_handler_ = FALSE])

\* the lambda initiate_bootstrap() passes to retry_backoff_.async_wait
retry_backoff_expired(w) ==
    IF w.stopped_ THEN w ELSE initiate_bootstrap(origin_restart(w))

\* faulty variant of the completion handler of async_write: the test of
\* stopped_ is missing
on_write_unguarded(w, ec) ==
    IF ec # Ok THEN stop(w)
    ELSE do_read(do_write([w EXCEPT !.writing_buffer_ = <<>>]))

\* completion handler of async_write in do_write
on_write(w, ec) ==
    IF w.stopped_ THEN w
    ELSE IF ec # Ok THEN stop(w)
    ELSE do_read(do_write([w EXCEPT !.writing_buffer_ = <<>>]))

\* completion handler of async_read_some in do_read, for one parsed message
\* followed by need_data
on_read(w, msg, sasl) ==
    IF w.stopped_ THEN w
    ELSE LET w1 == IF w.handler_ = "bootstrap"
                   THEN bootstrap_handle(w, msg, sasl)
                   ELSE normal_handle(w, msg)
         IN  IF w1.stopped_ \/ w1.crashed THEN w1
             ELSE do_read([w1 EXCEPT !.reading_ = FALSE])

\* faulty variant of the read completion: the error is ignored
on_read_failure_ignored(w) == w

\* completion handler of async_read_some for a transport error or a parser
\* failure
on_read_failure(w) == IF w.stopped_ THEN w ELSE stop(w)

\* ------------------------------------------------ write_and_subscribe
\* A producer thread runs write_and_subscribe in the steps between which the
\* code holds no lock: the read of stopped_, the emplace and the read of
\* bootstrapped_ && socket_.is_open(), then either write_and_flush or the
\* push into pending_buffer_ under pending_buffer_mutex_.

\* faulty variant of write_and_subscribe: the test of stopped_ is missing
write_and_subscribe_unguarded(w, t, opaque, op) ==
    LET call == [t |-> t, opq |-> opaque, op |-> op, reg |-> "", route |-> ""]
    IN  [w EXCEPT !.sends = Append(@, call),
                  !.pc[t] = "emplace", !.arg[t] = Len(w.sends) + 1]

\* the call and its first statement: if (stopped_) { handler(...); return; }
write_and_subscribe(w, t, opaque, op) ==
    LET id == Len(w.sends) + 1
        call == [t |-> t, opq |-> opaque, op |-> op,
                 reg |-> IF w.stopped_ THEN "sync" ELSE "",
                 route |-> ""]
        w1 == [w EXCEPT !.sends = Append(@, call)]
    IN  IF w.stopped_
        THEN Invoke(w1, id, "request_canceled", "send")
        ELSE [w1 EXCEPT !.pc[t] = "emplace", !.arg[t] = id]

\* command_handlers_.emplace(opaque, handler), which keeps an entry that is
\* already there, and the test of bootstrapped_ && socket_.is_open()
write_and_subscribe_emplace(w, t) ==
    LET id == w.arg[t]
        opaque == w.sends[id].opq
        fresh == opaque \notin DOMAIN w.command_handlers_
        w1 == IF fresh
              THEN [w EXCEPT !.command_handlers_ =
                      [o \in (DOMAIN @) \cup {opaque} |->
                          IF o = opaque THEN id ELSE @[o]]]
              ELSE w
        direct == w1.bootstrapped_ /\ w1.socket_open_
    IN  [w1 EXCEPT !.sends[id].reg = IF fresh THEN "new" ELSE "dup",
                   !.sends[id].route = IF direct THEN "write" ELSE "pend",
                   !.pc[t] = IF direct THEN "write" ELSE "pend"]

\* write_and_flush(data)
write_and_subscribe_write(w, t) ==
    LET id == w.arg[t]
        w1 == write_and_flush(w, Frame(w.sends[id].op, w.sends[id].opq, id))
    IN  [w1 EXCEPT !.pc[t] = "idle", !.arg[t] = 0]

\* write_and_flush(data) as the two calls it makes, between which the
\* producer holds no lock: write(buf) ...
write_and_subscribe_push(w, t) ==
    LET id == w.arg[t]
    IN  IF w.stopped_ THEN [w EXCEPT !.pc[t] = "idle", !.arg[t] = 0]
        ELSE [write(w, Frame(w.sends[id].op, w.sends[id].opq, id))
                EXCEPT !.pc[t] = "flush"]

\* faulty variant of the second call of write_and_flush: nothing is flushed
write_and_subscribe_no_flush(w, t) ==
    [w EXCEPT !.pc[t] = "idle", !.arg[t] = 0]

\* ... and flush()
write_and_subscribe_flush(w, t) ==
    [flush(w) EXCEPT !.pc[t] = "idle", !.arg[t] = 0]

\* pending_buffer_.push_back(data)
write_and_subscribe_pend(w, t) ==
    LET id == w.arg[t]
    IN  [w EXCEPT !.pending_buffer_ =
                      Append(@, Frame(w.sends[id].op, w.sends[id].opq, id)),
                  !.pc[t] = "idle", !.arg[t] = 0]

\* ------------------------------------------------ initial state
InitCore ==
    /\ stopped_ = FALSE
    /\ bootstrapped_ = FALSE
    /\ authenticated_ = FALSE
    /\ bucket_selected_ = FALSE
    /\ supports_gcccp_ = TRUE
    /\ bucket_name_ \in BucketNames
    /\ supported_features_ = {}
    /\ handler_ = "none"
    /\ bootstrap_handler_ = FALSE
    /\ command_handlers_ = EmptyMap
    /\ output_buffer_ = <<>>
    /\ pending_buffer_ = <<>>
    /\ writing_buffer_ = <<>>
    /\ config_ = NoConfig
    /\ errmap_ = FALSE
    /\ reading_ = FALSE
    /\ endpoints_ = 0
    /\ connect_it_ = 0
    /\ handler_stopped_ = FALSE
    /\ handler_session_ = FALSE
    /\ origin_next_ = 1
    /\ socket_open_ = FALSE
    /\ bootstrap_deadline_ = "idle"
    /\ retry_backoff_ = "idle"
    /\ heartbeat_timer_ = "idle"
    /\ connection_deadline_ = [expiry |-> "past", waiting |-> FALSE, queued |-> FALSE]
    /\ resolve_op = "idle"
    /\ connect_op = "idle"
    /\ read_op = "idle"
    /\ write_op = "idle"
    /\ pc = [t \in Threads |-> "idle"]
    /\ arg = [t \in Threads |-> 0]
    /\ wire = <<>>
    /\ answered = {}
    /\ fired = <<>>
    /\ done = <<>>
    /\ sends = <<>>
    /\ noop_calls = {}
    /\ refreshes = 0
    /\ crashed = FALSE
    /\ started = FALSE
    /\ collection_cache_ = [path \in {"_default._default"} |-> 0]
    /\ issued = <<>>
    /\ overlap = FALSE
    /\ continuations = EmptyMap

\* a session whose origin_ holds the smallest candidate list
InitMembers == InitCore /\ origin_nodes_ = 1

Init == InitMembers /\ opaque_ = <<0, 0>>

\* ------------------------------------------------ actions
\* the layer above calls bootstrap() once, on a session it has not stopped
Bootstrap ==
    /\ ~crashed /\ ~started /\ ~stopped_
    /\ Install(bootstrap(World))

\* the layer above (or ~mcbp_session) calls stop()
Stop ==
    /\ ~crashed
    /\ Install([stop(World) EXCEPT
                  !.noop_calls = IF stopped_ THEN @ \cup {"stop"} ELSE @])

\* the layer above calls cancel(opaque, ec)
Cancel ==
    /\ ~crashed
    /\ \E opaque \in UserOpaques, ec \in CancelErrors :
          LET w == cancel(World, opaque, ec)
          IN  Install([w EXCEPT !.noop_calls =
                         IF w = World THEN @ \cup {"cancel"} ELSE @])

\* opaques the producers may pass next: one used before, or the least of the
\* unused ones (the producers draw new opaques in increasing order)
UsedOpaques == {sends[i].opq : i \in 1..Len(sends)}
NextOpaques ==
    UsedOpaques \cup
    {o \in UserOpaques \ UsedOpaques :
        \A p \in UserOpaques \ UsedOpaques : OpaqueLeq(o, p)}

SendCall ==
    /\ ~crashed
    /\ Len(sends) < MaxSends
    /\ \E t \in Threads, opaque \in NextOpaques, op \in UserOps :
          /\ pc[t] = "idle"
          /\ Install(write_and_subscribe(World, t, opaque, op))

SendEmplace ==
    /\ ~crashed
    /\ \E t \in Threads :
          /\ pc[t] = "emplace"
          /\ Install(write_and_subscribe_emplace(World, t))

SendWrite ==
    /\ ~crashed
    /\ \E t \in Threads :
          /\ pc[t] = "write"
          /\ Install(write_and_subscribe_write(World, t))

SendPend ==
    /\ ~crashed
    /\ \E t \in Threads :
          /\ pc[t] = "pend"
          /\ Install(write_and_subscribe_pend(World, t))

BootstrapDeadlineExpire ==
    /\ ~crashed
    /\ bootstrap_deadline_ = "wait"
    /\ Install([World EXCEPT !.bootstrap_deadline_ = "expired"])

BootstrapDeadlineCallback ==
    /\ ~crashed
    /\ bootstrap_deadline_ = "expired"
    /\ Install(bootstrap_deadline_expired(
                   [World EXCEPT !.bootstrap_deadline_ = "idle"]))

RetryBackoffCallback ==
    /\ ~crashed
    /\ retry_backoff_ = "wait"
    /\ Install(retry_backoff_expired([World EXCEPT !.retry_backoff_ = "idle"]))

OnResolve ==
    /\ ~crashed
    /\ resolve_op = "wait"
    /\ \/ Install(on_resolve([World EXCEPT !.resolve_op = "idle"],
                             "host_not_found", 0))
       \/ \E n \in Endpoints :
             Install(on_resolve([World EXCEPT !.resolve_op = "idle"], Ok, n))

OnConnect ==
    /\ ~crashed
    /\ connect_op \in {"wait", "aborted"}
    /\ \E ec \in {Ok, "connection_refused", "operation_aborted"} :
          /\ connect_op = "aborted" <=> ec = "operation_aborted"
          /\ Install(on_connect([World EXCEPT !.connect_op = "idle"], ec))

ConnectionDeadlineExpire ==
    /\ ~crashed
    /\ ~stopped_
    /\ connection_deadline_.expiry = "future"
    /\ Install([World EXCEPT !.connection_deadline_ =
                  [expiry |-> "past", waiting |-> FALSE,
                   queued |-> @.queued \/ @.waiting]])

CheckDeadline ==
    /\ ~crashed
    /\ connection_deadline_.queued
    /\ Install(check_deadline(
                   [World EXCEPT !.connection_deadline_.queued = FALSE]))

OnWrite ==
    /\ ~crashed
    /\ write_op = "wait"
    /\ \E ec \in {Ok, "broken_pipe"} :
          Install(on_write([World EXCEPT !.write_op = "idle"], ec))

\* the peer answers a request it has received
Response(i, status, features, rev) ==
    [magic |-> "client_response", op |-> wire[i].op, opq |-> wire[i].opq,
     status |-> status, features |-> features, rev |-> rev,
     bucket |-> "", cfg_bucket |-> ""]

\* the read completes and the parser yields one message: the answer to
\* request i of the write stream
Read(i, status, features, rev, sasl) ==
    /\ ~crashed
    /\ read_op = "wait"
    /\ i \in (1..Len(wire)) \ answered
    /\ Install(on_read([World EXCEPT !.read_op = "idle",
                                     !.answered = @ \cup {i}],
                       Response(i, status, features, rev), sasl))

\* any answer of the peer to a request it has received
OnRead ==
    \E i \in 1..Len(wire) :
    \E status \in StatusesFor(wire[i].op) :
    \E features \in IF wire[i].op = "hello" /\ status = "success"
                    THEN {{}, {"xerror"}} ELSE {{}} :
    \E rev \in IF wire[i].op = "get_cluster_config" /\ status = "success"
               THEN Revs ELSE {0} :
    \E sasl \in IF wire[i].op = "sasl_auth" /\ status = "auth_continue"
                THEN SaslCodes ELSE {"OK"} :
       Read(i, status, features, rev, sasl)

\* a peer that answers with any status, the requests of the session in the
\* order it received them and those of the producers in any order; it
\* acknowledges no feature, sends revision 1 and its SASL payload is one the
\* collaborator accepts at once
OnReadPlain ==
    \E i \in 1..Len(wire) :
    \E status \in StatusesFor(wire[i].op) :
       /\ wire[i].id = 0 =>
             \A j \in 1..(i - 1) : wire[j].id = 0 => j \in answered
       /\ Read(i, status, {},
               IF wire[i].op = "get_cluster_config" /\ status = "success"
               THEN 1 ELSE 0,
               "OK")

\* the read completes with a transport error, or the parser reports failure
OnReadFailure ==
    /\ ~crashed
    /\ read_op = "wait"
    /\ Install(on_read_failure([World EXCEPT !.read_op = "idle"]))

\* heartbeat_timer_ expires and calls fetch_config
Heartbeat ==
    /\ ~crashed
    /\ heartbeat_timer_ = "wait"
    /\ refreshes < MaxRefresh
    /\ Install(fetch_config([World EXCEPT !.heartbeat_timer_ = "idle",
                                          !.refreshes = @ + 1]))

\* resolution and dial succeed at the first attempt
OnResolveOk ==
    /\ ~crashed
    /\ resolve_op = "wait"
    /\ \E n \in Endpoints :
          Install(on_resolve([World EXCEPT !.resolve_op = "idle"], Ok, n))

OnConnectOk ==
    /\ ~crashed
    /\ connect_op = "wait"
    /\ Install(on_connect([World EXCEPT !.connect_op = "idle"], Ok))

\* The session with its producers, from construction on: resolution and
\* dial succeed, the negotiation succeeds or fails, and the session stops by
\* stop(), a failed negotiation, the bootstrap deadline or a transport error.
InitPlain == Init /\ bucket_name_ = ""

Next ==
    \/ Bootstrap
    \/ Stop
    \/ Cancel
    \/ SendCall
    \/ SendEmplace
    \/ SendWrite
    \/ SendPend
    \/ BootstrapDeadlineExpire
    \/ BootstrapDeadlineCallback
    \/ OnResolveOk
    \/ OnConnectOk
    \/ OnWrite
    \/ OnReadPlain
    \/ OnReadFailure

Spec == InitPlain /\ [][Next]_vars

\* collection paths and identifiers passed to update_collection_uid
CollectionPaths == {"s.c"}
CollectionUids == {8}

\* the layer above calls update_collection_uid
UpdateCollectionUid ==
    /\ ~crashed
    /\ \E path \in CollectionPaths, uid \in CollectionUids :
          /\ path \notin DOMAIN collection_cache_
          /\ Install(update_collection_uid(World, path, uid))

\* The bootstrap of a session, with every outcome of resolution, dial,
\* negotiation and deadlines, and no producer.
NextBoot ==
    \/ Bootstrap
    \/ Stop
    \/ BootstrapDeadlineExpire
    \/ BootstrapDeadlineCallback
    \/ RetryBackoffCallback
    \/ OnResolve
    \/ OnConnect
    \/ ConnectionDeadlineExpire
    \/ CheckDeadline
    \/ OnWrite
    \/ OnRead
    \/ OnReadFailure
    \/ Heartbeat
    \/ UpdateCollectionUid

SpecBoot == Init /\ [][NextBoot]_vars

\* ------------------------------------------------ the ready session
\* opcodes of the requests the producers send once the session is ready
ReadyOps == {"get", "get_cluster_config"}
\* buckets named by a notification, and by the configuration it embeds
NotifiedBuckets == {"", "b", "c"}
\* revisions of the configurations received once ready
ReadyRevs == {1, 2, 3}
\* opaques carried by the frames received once ready: those of the producers
\* and the one of the first refresh request
ReadyOpaques == UserOpaques \cup {<<0, 4>>}

\* the frames mcbp_parser::next yields once ready: any frame with a known
\* magic; the opcode, status and opaque are whatever the peer wrote
ReadyFrames ==
    [magic : {"client_response"},
     op : {"get", "insert"},
     opq : ReadyOpaques, status : {"success", "exists"},
     features : {{}}, rev : {0}, bucket : {""}, cfg_bucket : {""}]
    \cup
    [magic : {"alt_client_response"},
     op : {"get"},
     opq : UserOpaques, status : {"success"},
     features : {{}}, rev : {0}, bucket : {""}, cfg_bucket : {""}]
    \cup
    [magic : {"client_response"},
     op : {"hello", "unknown"},
     opq : {<<0, 101>>}, status : {"success"},
     features : {{}}, rev : {0}, bucket : {""}, cfg_bucket : {""}]
    \cup
    [magic : {"client_response"},
     op : {"get_cluster_config"},
     opq : {<<0, 4>>, <<0, 101>>}, status : {"success"},
     features : {{}}, rev : ReadyRevs, bucket : {""}, cfg_bucket : {""}]
    \cup
    [magic : {"client_response"},
     op : {"get_cluster_config"},
     opq : {<<0, 101>>}, status : {"internal"},
     features : {{}}, rev : {0}, bucket : {""}, cfg_bucket : {""}]
    \cup
    [magic : {"server_request"},
     op : {"cluster_map_change_notification"},
     opq : {<<0, 0>>}, status : {"success"},
     features : {{}}, rev : {1, 3}, bucket : NotifiedBuckets,
     cfg_bucket : {"", "b"}]
    \cup
    [magic : {"server_request", "client_request", "alt_client_request",
              "server_response"},
     op : {"authenticate"}, opq : {<<0, 0>>}, status : {"success"},
     features : {{}}, rev : {0}, bucket : {""}, cfg_bucket : {""}]

\* a producer calls write_and_subscribe on a session that has become ready
SendCallReady ==
    /\ ~crashed
    /\ bootstrapped_
    /\ Len(sends) < MaxSends
    /\ \E t \in Threads, opaque \in NextOpaques, op \in ReadyOps :
          /\ pc[t] = "idle"
          /\ Install(write_and_subscribe(World, t, opaque, op))

\* during bootstrap the peer answers each request with success, in order
OnReadBootOk ==
    /\ handler_ = "bootstrap"
    /\ \E i \in 1..Len(wire) :
          /\ \A j \in 1..(i - 1) : j \in answered
          /\ Read(i, "success", {},
                  IF wire[i].op = "get_cluster_config" THEN 2 ELSE 0, "OK")

\* once ready the read completes with any frame
OnReadReady ==
    /\ ~crashed
    /\ read_op = "wait"
    /\ handler_ = "normal"
    /\ \E msg \in ReadyFrames :
          Install(on_read([World EXCEPT !.read_op = "idle"], msg, "OK"))

\* the write completes without error
OnWriteOk ==
    /\ ~crashed
    /\ write_op = "wait"
    /\ Install(on_write([World EXCEPT !.write_op = "idle"], Ok))


\* The session on bucket "b" from construction on, with a bootstrap that
\* succeeds and then any frame the peer may write.
NextReady ==
    \/ Bootstrap
    \/ OnResolveOk
    \/ OnConnectOk
    \/ OnWriteOk
    \/ OnReadBootOk
    \/ OnReadReady
    \/ SendCallReady
    \/ SendEmplace
    \/ SendWrite

InitBucket == Init /\ bucket_name_ = "b"

SpecReady == InitBucket /\ [][NextReady]_vars

\* ------------------------------------------------ the opaque counter
\* values of opaque_ from which the counter is followed: that of a new
\* session, one before a carry into the high half, one before the wrap
OpaqueStarts == {<<0, 0>>, <<0, Half - 2>>, <<Half - 1, Half - 2>>}

InitOpaque == InitMembers /\ opaque_ \in OpaqueStarts

\* a producer thread calls next_opaque() for a request it is building
DrawOpaque ==
    /\ ~crashed
    /\ Len(issued) < Cardinality(BootstrapOps) + MaxSends
    /\ Install(after_next_opaque(World))

\* The counter under the requests of a bootstrap that succeeds, the refresh
\* requests and the calls of producer threads.
NextOpaque ==
    \/ Bootstrap
    \/ OnResolveOk
    \/ OnConnectOk
    \/ OnWriteOk
    \/ OnReadBootOk
    \/ Heartbeat
    \/ DrawOpaque

SpecOpaque == InitOpaque /\ [][NextOpaque]_vars

\* ------------------------------------------------ transport errors
\* the write completion reports a transport error
OnWriteFailed ==
    /\ ~crashed
    /\ write_op = "wait"
    /\ Install(on_write([World EXCEPT !.write_op = "idle"], "broken_pipe"))

\* A session whose negotiation succeeds, with producers sending before and
\* after ready, in which only a transport error or a parser failure stops
\* the session.
NextIo ==
    \/ Bootstrap
    \/ OnResolveOk
    \/ OnConnectOk
    \/ OnWriteOk
    \/ OnWriteFailed
    \/ OnReadBootOk
    \/ OnReadReady
    \/ OnReadFailure
    \/ SendCall
    \/ SendEmplace
    \/ SendWrite
    \/ SendPend

SpecIo == InitBucket /\ [][NextIo]_vars

\* ------------------------------------------------ status mapping
\* the statuses map_status_code maps to no error
SuccessStatuses ==
    {"success", "subdoc_multi_path_failure", "subdoc_success_deleted",
     "subdoc_multi_path_failure_deleted"}

\* the statuses whose case of map_status_code only breaks out of the switch,
\* and "unlisted" for a 16-bit value that is no enumerator of status
NoRuleStatuses ==
    {"subdoc_invalid_xattr_order", "not_my_vbucket", "auth_continue",
     "range_error", "rollback", "unknown_frame_info",
     "no_collections_manifest", "cannot_apply_collections_manifest",
     "collections_manifest_is_ahead", "dcp_stream_id_invalid", "unlisted"}

\* the statuses whose case of map_status_code returns an error
ErrorStatuses ==
    {"not_found", "not_stored", "exists", "too_big", "invalid",
     "xattr_invalid", "subdoc_invalid_combo", "delta_bad_value", "no_bucket",
     "locked", "auth_stale", "auth_error", "no_access", "not_supported",
     "unknown_command", "internal", "busy", "temp_failure", "no_memory",
     "not_initialized", "unknown_collection", "unknown_scope",
     "durability_invalid_level", "durability_impossible",
     "sync_write_in_progress", "sync_write_ambiguous",
     "sync_write_re_commit_in_progress", "subdoc_path_not_found",
     "subdoc_path_mismatch", "subdoc_path_invalid", "subdoc_path_too_big",
     "subdoc_doc_too_deep", "subdoc_value_cannot_insert",
     "subdoc_doc_not_json", "subdoc_num_range_error", "subdoc_delta_invalid",
     "subdoc_path_exists", "subdoc_value_too_deep",
     "subdoc_xattr_invalid_flag_combo", "subdoc_xattr_invalid_key_combo",
     "subdoc_xattr_unknown_macro", "subdoc_xattr_unknown_vattr",
     "subdoc_xattr_cannot_modify_vattr"}

AllStatuses == SuccessStatuses \cup ErrorStatuses \cup NoRuleStatuses

\* opcodes and statuses of the responses the peer sends in SpecStatus
StatusOps == {"get", "insert", "upsert"}
SentStatuses ==
    {"success", "subdoc_multi_path_failure", "exists", "not_found",
     "not_my_vbucket", "auth_continue", "unlisted"}

\* the peer answers a registered opaque with any opcode of StatusOps and any
\* status of SentStatuses
OnReadStatus ==
    /\ ~crashed
    /\ read_op = "wait"
    /\ handler_ = "normal"
    /\ \E opaque \in DOMAIN command_handlers_, op \in StatusOps,
          status \in SentStatuses :
          Install(on_read([World EXCEPT !.read_op = "idle"],
                          [magic |-> "client_response", op |-> op,
                           opq |-> opaque, status |-> status,
                           features |-> {}, rev |-> 0, bucket |-> "",
                           cfg_bucket |-> ""],
                          "OK"))

NextStatus ==
    \/ Bootstrap
    \/ OnResolveOk
    \/ OnConnectOk
    \/ OnWriteOk
    \/ OnReadBootOk
    \/ SendCallReady
    \/ SendEmplace
    \/ SendWrite
    \/ OnReadStatus

SpecStatus == InitBucket /\ [][NextStatus]_vars

\* ------------------------------------------------ server requests
\* the frames of ReadyFrames the server sends on its own
ServerRequests == {msg \in ReadyFrames : msg.magic = "server_request"}

OnReadNotify ==
    /\ ~crashed
    /\ read_op = "wait"
    /\ handler_ = "normal"
    /\ \E msg \in ServerRequests :
          Install(on_read([World EXCEPT !.read_op = "idle"], msg, "OK"))

\* A session with or without a bucket whose negotiation succeeds and which,
\* once ready, receives server requests.
NextNotify ==
    \/ Bootstrap
    \/ OnResolveOk
    \/ OnConnectOk
    \/ OnWriteOk
    \/ OnReadBootOk
    \/ SendCallReady
    \/ SendEmplace
    \/ SendWrite
    \/ OnReadNotify

SpecNotify == Init /\ [][NextNotify]_vars

\* ------------------------------------------------ resolving and dialling
\* sizes of the resolution results the resolver hands to on_resolve
DialEndpoints == {1, 2}

OnResolveDial ==
    /\ ~crashed
    /\ resolve_op = "wait"
    /\ \/ Install(on_resolve([World EXCEPT !.resolve_op = "idle"],
                             "host_not_found", 0))
       \/ \E n \in DialEndpoints :
             Install(on_resolve([World EXCEPT !.resolve_op = "idle"], Ok, n))

\* The session from construction until a dial succeeds: every candidate of
\* origin_ may fail to resolve, every endpoint may refuse or never answer.
NextDial ==
    \/ Bootstrap
    \/ Stop
    \/ BootstrapDeadlineExpire
    \/ BootstrapDeadlineCallback
    \/ RetryBackoffCallback
    \/ OnResolveDial
    \/ OnConnect
    \/ ConnectionDeadlineExpire
    \/ CheckDeadline

InitDial == InitCore /\ opaque_ = <<0, 0>> /\ origin_nodes_ = Cardinality(Nodes)

SpecDial == InitDial /\ [][NextDial]_vars

\* ------------------------------------------------ re-entrant continuations
\* what a re-entrant continuation does when it is first invoked
Reentries == {"send", "cancel"}
\* the number of calls made with a re-entrant continuation
MaxReentrant == 1

\* a producer calls write_and_subscribe on a session that has become ready,
\* with a continuation that re-enters the session
SendCallReenter ==
    /\ ~crashed
    /\ bootstrapped_
    /\ Cardinality(DOMAIN continuations) < MaxReentrant
    /\ \E t \in Threads, opaque \in NextOpaques, op \in UserOps,
          re \in Reentries :
          /\ pc[t] = "idle"
          /\ LET id == Len(sends) + 1
                 w == [World EXCEPT !.continuations =
                         [i \in (DOMAIN @) \cup {id} |->
                             IF i = id THEN re ELSE @[i]]]
             IN  Install(write_and_subscribe(w, t, opaque, op))

\* the layer above calls cancel(opaque, ec); when the continuation has
\* cancelled its own opaque, the inner call has erased the entry and the
\* iterator the outer call erases is invalid: the erase may go unnoticed or
\* end the process
CancelReenter ==
    /\ ~crashed
    /\ \E opaque \in UserOpaques, ec \in CancelErrors :
          LET w == cancel(World, opaque, ec)
              erased_twice ==
                  /\ Len(w.fired) >= Len(fired) + 2
                  /\ w.fired[Len(fired) + 2].by = "cancel"
          IN  \/ Install([w EXCEPT !.noop_calls =
                             IF w = World THEN @ \cup {"cancel"} ELSE @])
              \/ erased_twice /\ Install([w EXCEPT !.crashed = TRUE])

\* once ready the peer answers the requests of the producers, in any order
\* and with any status
OnReadUser ==
    /\ handler_ = "normal"
    /\ \E i \in 1..Len(wire) :
       \E status \in StatusesFor(wire[i].op) :
          /\ wire[i].id # 0
          /\ Read(i, status, {}, 0, "OK")

\* The session with producers all of whose continuations call back into it:
\* bootstrap succeeds, responses arrive with any status, and the layer above
\* cancels and stops.
NextReenter ==
    \/ Bootstrap
    \/ Stop
    \/ CancelReenter
    \/ SendCallReenter
    \/ SendEmplace
    \/ SendWrite
    \/ OnResolveOk
    \/ OnConnectOk
    \/ OnWriteOk
    \/ OnReadBootOk
    \/ OnReadUser

SpecReenter == InitPlain /\ [][NextReenter]_vars

\* ------------------------------------------------ producers and the writer
SendPush ==
    /\ ~crashed
    /\ \E t \in Threads :
          /\ pc[t] = "write"
          /\ Install(write_and_subscribe_push(World, t))

SendFlush ==
    /\ ~crashed
    /\ \E t \in Threads :
          /\ pc[t] = "flush"
          /\ Install(write_and_subscribe_flush(World, t))

\* The session with a producer whose write_and_flush interleaves with the
\* write completions: bootstrap succeeds, every write completes without
\* error, and the layer above may stop the session.
NextWrite ==
    \/ Bootstrap
    \/ Stop
    \/ OnResolveOk
    \/ OnConnectOk
    \/ OnWriteOk
    \/ OnReadBootOk
    \/ SendCall
    \/ SendEmplace
    \/ SendPush
    \/ SendFlush
    \/ SendPend

\* asio runs the completion of a write that is outstanding, and a producer
\* that has returned from write() goes on to flush()
SpecWrite ==
    /\ InitPlain
    /\ [][NextWrite]_vars
    /\ WF_vars(OnWriteOk)
    /\ WF_vars(SendFlush)

\* ======================================================== properties
\* invocations of the continuation of send number id
FiredCount(id) == Count(fired, id)
\* the frames of send number id handed to the socket
OnWire(id) == {j \in 1..Len(wire) : wire[j].id = id}
\* the write pipeline: what was handed to the socket, then what waits for it
Pipeline == wire \o output_buffer_
PipelineNext == wire' \o output_buffer_'
\* the frame of send number id
FrameOf(id) == Frame(sends[id].op, sends[id].opq, id)

\* C1: the continuation of every send made with an opaque that was not
\* registered (or made on a stopped session) is invoked at most once, and
\* has been invoked once the session is stopped.
C1_ExactlyOnce ==
    \A id \in 1..Len(sends) :
        sends[id].reg \in {"sync", "new"} =>
            /\ FiredCount(id) <= 1
            /\ stopped_ => FiredCount(id) = 1

\* C2: after bootstrap(done), done is invoked at most once; it has been
\* invoked once the session is ready or stopped; it was invoked with no
\* error exactly when ready was entered, and then with the configuration
\* that was installed.
C2_BootstrapOnce ==
    /\ Len(done) <= 1
    /\ (started /\ (stopped_ \/ bootstrapped_)) => Len(done) = 1
    /\ Len(done) = 1 =>
          /\ done[1].ec = Ok <=> bootstrapped_
          /\ done[1].ec = Ok =>
                /\ done[1].cfg.set /\ config_.set
                /\ done[1].cfg.rev <= config_.rev

\* ready was entered, done was invoked with the configuration, and a later
\* stop() did not invoke it again
C2_Witness ==
    /\ stopped_ /\ bootstrapped_
    /\ Len(done) = 1 /\ done[1].ec = Ok /\ done[1].cfg.set

\* C3: every step that stops the session (stop(), a transport error, a
\* failed negotiation, the bootstrap deadline) leaves the registry empty and
\* invokes every continuation that was registered with request-canceled.
C3_StopDrains ==
    [][(~stopped_ /\ stopped_') =>
          /\ command_handlers_' = EmptyMap
          /\ \A o \in DOMAIN command_handlers_ :
                LET id == command_handlers_[o]
                IN  /\ Count(fired', id) = Count(fired, id) + 1
                    /\ \E i \in (Len(fired) + 1)..Len(fired') :
                          fired'[i] = [id |-> id, ec |-> "request_canceled",
                                       by |-> "stop"]]_vars

\* stop() ran with two registered continuations
C3_Witness ==
    /\ stopped_
    /\ Cardinality({i \in 1..Len(fired) : fired[i].by = "stop"}) >= 2

\* C4: on a stopped session stop() changes nothing and invokes nothing, and
\* over any number of calls a continuation is invoked by stop() at most once
\* and the bootstrap continuation at most once.
C4_StopIdempotent ==
    /\ stopped_ => stop(World) = World
    /\ \A id \in 1..Len(sends) :
          Cardinality({i \in 1..Len(fired) :
                          fired[i].id = id /\ fired[i].by = "stop"}) <= 1
    /\ Len(done) <= 1

\* stop() was called again after a stop() that invoked a continuation and
\* the bootstrap continuation
C4_Witness ==
    /\ "stop" \in noop_calls
    /\ \E i \in 1..Len(fired) : fired[i].by = "stop"
    /\ Len(done) = 1 /\ done[1].ec = "request_canceled"

\* C5: write_and_subscribe on a stopped session invokes the continuation
\* with request-canceled inside the call and touches neither the registry
\* nor a buffer.
C5_SendOnStopped ==
    stopped_ =>
        \A t \in Threads, o \in UserOpaques, op \in UserOps :
            pc[t] = "idle" =>
                LET w == write_and_subscribe(World, t, o, op)
                IN  /\ w.fired = Append(fired, [id |-> Len(sends) + 1,
                                                ec |-> "request_canceled",
                                                by |-> "send"])
                    /\ w.pc = pc
                    /\ [w EXCEPT !.fired = fired, !.sends = sends] = World

\* a send on a stopped session has failed inside the call
C5_Witness ==
    \E i \in 1..Len(fired) :
        /\ fired[i].by = "send" /\ fired[i].ec = "request_canceled"
        /\ sends[fired[i].id].reg = "sync"

\* C6: a frame sent before ready goes to the pending buffer and is not
\* written; entering ready moves the pending frames, in their order, to the
\* end of the write pipeline and empties the pending buffer; a frame sent
\* while ready goes to the output buffer and a write is outstanding after
\* the flush.
C6_PendingThenFlush ==
    [][/\ \A t \in Threads :
            /\ (pc[t] = "emplace" /\ pc'[t] # "emplace") =>
                  /\ ~bootstrapped_ => pc'[t] = "pend"
                  /\ (bootstrapped_ /\ ~stopped_) => pc'[t] = "write"
            /\ (pc[t] = "pend" /\ pc'[t] = "idle") =>
                  /\ pending_buffer_' = Append(pending_buffer_, FrameOf(arg[t]))
                  /\ PipelineNext = Pipeline
            /\ (pc[t] = "write" /\ pc'[t] = "idle" /\ ~stopped_) =>
                  /\ PipelineNext = Append(Pipeline, FrameOf(arg[t]))
                  /\ writing_buffer_' # <<>>
                  /\ pending_buffer_' = pending_buffer_
       /\ (~bootstrapped_ /\ bootstrapped_') =>
            /\ pending_buffer_' = <<>>
            /\ Len(PipelineNext) >= Len(Pipeline) + Len(pending_buffer_)
            /\ SubSeq(PipelineNext, 1, Len(Pipeline)) = Pipeline
            /\ SubSeq(PipelineNext,
                      Len(PipelineNext) - Len(pending_buffer_) + 1,
                      Len(PipelineNext)) = pending_buffer_
            /\ pending_buffer_ # <<>> => writing_buffer_' # <<>>]_vars

\* ready was entered with two frames pending, both now handed to the socket
C6_Witness ==
    /\ bootstrapped_ /\ pending_buffer_ = <<>>
    /\ \E i, j \in 1..Len(wire) :
          /\ i < j /\ wire[i].id # 0 /\ wire[j].id # 0
          /\ wire[i].id < wire[j].id
          /\ sends[wire[i].id].route = "pend"
          /\ sends[wire[j].id].route = "pend"

\* C7: cancel of a registered opaque on a session that is not stopped
\* invokes that continuation once with the error, removes that entry alone
\* and changes nothing else.
C7_CancelRegistered ==
    ~stopped_ =>
        \A o \in DOMAIN command_handlers_, ec \in CancelErrors :
            LET w == cancel(World, o, ec)
            IN  /\ w.fired = Append(fired, [id |-> command_handlers_[o],
                                            ec |-> ec, by |-> "cancel"])
                /\ DOMAIN w.command_handlers_ = (DOMAIN command_handlers_) \ {o}
                /\ \A p \in DOMAIN w.command_handlers_ :
                      w.command_handlers_[p] = command_handlers_[p]
                /\ ~w.stopped_
                /\ [w EXCEPT !.fired = fired,
                             !.command_handlers_ = command_handlers_] = World

\* a cancel has invoked one continuation while another stays registered
C7_Witness ==
    /\ ~stopped_
    /\ \E i \in 1..Len(fired) : fired[i].by = "cancel"
    /\ command_handlers_ # EmptyMap

\* C8: cancel of an opaque that is not registered, or on a stopped session,
\* changes nothing and invokes nothing.
C8_CancelUnregistered ==
    \A o \in UserOpaques, ec \in CancelErrors :
        (o \notin DOMAIN command_handlers_ \/ stopped_) =>
            cancel(World, o, ec) = World

\* a cancel found nothing to do on a running session in which a request was
\* already answered and another is registered
C8_Witness ==
    /\ "cancel" \in noop_calls /\ ~stopped_
    /\ \E i \in 1..Len(fired) : fired[i].by = "response"
    /\ command_handlers_ # EmptyMap

\* C9: of two sends accepted from one thread, the frame of the later one is
\* handed to the socket only after the frame of the earlier one.
C9_SubmissionOrder ==
    \A id1, id2 \in 1..Len(sends) :
        (/\ id1 < id2
         /\ sends[id1].t = sends[id2].t
         /\ sends[id1].reg \in {"new", "dup"}
         /\ sends[id2].reg \in {"new", "dup"}) =>
            \A j \in OnWire(id2) : \E i \in OnWire(id1) : i < j

\* C10 as stated: a continuation is invoked only after its frame was handed
\* to the socket.
C10_AfterWrite ==
    \A i \in 1..Len(fired) : OnWire(fired[i].id) # {}

\* C10 amended: a continuation invoked by a response, for an opaque that no
\* other send used, is invoked only after its frame was handed to the
\* socket (the peer answers only requests it has received).
C10_ResponseAfterWrite ==
    \A i \in 1..Len(fired) :
        (/\ fired[i].by = "response"
         /\ \A id \in 1..Len(sends) :
               sends[id].opq = sends[fired[i].id].opq => id = fired[i].id) =>
            OnWire(fired[i].id) # {}

\* a response has invoked the continuation of a send whose opaque is its own
C10_Witness ==
    \E i \in 1..Len(fired) :
        /\ fired[i].by = "response"
        /\ \A id \in 1..Len(sends) :
              sends[id].opq = sends[fired[i].id].opq => id = fired[i].id
        /\ Len(sends) = 2

\* the session is ready: the ready handler is current and nothing has stopped
Ready == handler_ = "normal" /\ ~handler_stopped_ /\ ~stopped_ /\ ~crashed

\* a get-cluster-config response with opaque o, status success and revision rev
ConfigResponse(o, rev) ==
    [magic |-> "client_response", op |-> "get_cluster_config", opq |-> o,
     status |-> "success", features |-> {}, rev |-> rev, bucket |-> "",
     cfg_bucket |-> ""]

\* the registry without the entry of opaque o
Without(registry, o) == [p \in (DOMAIN registry) \ {o} |-> registry[p]]

\* C11: when the ready handler receives a get-cluster-config response whose
\* opaque is registered by a get-cluster-config request, the configuration is
\* installed and the registered continuation is removed and invoked.
C11_ConfigResponseFires ==
    Ready =>
        \A o \in DOMAIN command_handlers_, rev \in ReadyRevs :
            sends[command_handlers_[o]].op = "get_cluster_config" =>
                LET w == normal_handle(World, ConfigResponse(o, rev))
                IN  /\ w.config_.set /\ w.config_.rev >= rev
                    /\ o \notin DOMAIN w.command_handlers_
                    /\ w.fired = Append(fired, [id |-> command_handlers_[o],
                                                ec |-> Ok, by |-> "response"])

\* C12: the revision of the stored configuration never decreases, and the
\* stored configuration changes only when none was stored or the new
\* revision is strictly greater.
C12_RevisionMonotonic ==
    [][/\ config_.set => (config_'.set /\ config_'.rev >= config_.rev)
       /\ config_' # config_ => (~config_.set \/ config_'.rev > config_.rev)]_vars

\* the configuration of the bootstrap (revision 2) was replaced by one of
\* revision 3 received once ready
C12_Witness == bootstrapped_ /\ config_.set /\ config_.rev = 3

\* C13 as stated: after update_configuration(c), in any state, a
\* configuration is stored and its revision is at least c.rev.
C13_StoredAtLeast ==
    \A rev \in ReadyRevs :
        LET w == update_configuration(World, Config(rev))
        IN  w.config_.set /\ w.config_.rev >= rev

\* C13 amended: on a session that is not stopped, after
\* update_configuration(c) a configuration is stored and its revision is at
\* least c.rev; on a stopped session the call changes nothing.
C13_StoredAtLeastUnlessStopped ==
    \A rev \in ReadyRevs :
        LET w == update_configuration(World, Config(rev))
        IN  /\ ~stopped_ => (w.config_.set /\ w.config_.rev >= rev)
            /\ stopped_ => w = World

\* a running session that has refreshed stores a configuration of revision 2
C13_Witness == ~stopped_ /\ config_.set /\ config_.rev = 2 /\ refreshes > 0

TimedOut == [ec |-> "unambiguous_timeout", cfg |-> NoConfig]

\* C15: when the callback of the bootstrap deadline runs on a session that
\* is neither ready nor stopped, the bootstrap continuation is invoked with
\* unambiguous-timeout, that is its only invocation then and later, and the
\* session is stopped.
C15_DeadlineTimeout ==
    [][/\ (BootstrapDeadlineCallback /\ ~bootstrapped_ /\ ~stopped_) =>
             (done' = <<TimedOut>> /\ stopped_')
       /\ done = <<TimedOut>> => (done' = done /\ stopped_')]_vars

\* the deadline expired after authentication, while the session waited for
\* the responses that end the negotiation
C15_Witness ==
    /\ done = <<TimedOut>> /\ stopped_ /\ ~bootstrapped_
    /\ authenticated_ /\ handler_ = "bootstrap"

\* the successor of a 32-bit value held as two 16-bit halves
Succ32(o) ==
    IF o[2] # Half - 1 THEN <<o[1], o[2] + 1>>
    ELSE IF o[1] # Half - 1 THEN <<o[1] + 1, 0>>
    ELSE <<0, 0>>

\* order of 32-bit values held as two 16-bit halves
Less32(a, b) == a[1] < b[1] \/ (a[1] = b[1] /\ a[2] < b[2])

\* C18: next_opaque() returns the counter plus one modulo 2^32 and stores it,
\* the first value of a new session is 1, the values returned are each the
\* successor of the one before whatever thread made the call, strictly
\* increasing until the counter wraps, and no two of them are equal.
C18_NextOpaque ==
    /\ next_opaque(World) = Succ32(opaque_)
    /\ after_next_opaque(World).opaque_ = Succ32(opaque_)
    /\ (issued = <<>> /\ opaque_ = <<0, 0>>) => next_opaque(World) = <<0, 1>>
    /\ issued # <<>> => issued[Len(issued)] = opaque_
    /\ \A i \in 1..(Len(issued) - 1) : issued[i + 1] = Succ32(issued[i])
    /\ \A i, j \in 1..Len(issued) :
          i < j =>
             /\ issued[i] # issued[j]
             /\ (\A k \in (i + 1)..j : issued[k] # <<0, 0>>) =>
                   Less32(issued[i], issued[j])

\* the counter has wrapped from 2^32 - 1 to 0 and gone on
C18_Witness ==
    \E i \in 1..(Len(issued) - 2) :
        /\ issued[i] = <<Half - 1, Half - 1>>
        /\ issued[i + 1] = <<0, 0>>
        /\ issued[i + 2] = <<0, 1>>

\* C16: once stop() has returned no continuation is registered, whatever
\* send() calls of producer threads were under way when it ran.
C16_EmptyAfterStop ==
    stopped_ => command_handlers_ = EmptyMap

\* C17 as stated: a session that is not stopped has a current handler, the
\* bootstrap handler or the ready handler, from construction on.
C17_AlwaysAHandler ==
    ~stopped_ => handler_ \in {"bootstrap", "normal"}

\* a dial has succeeded: on_connect created the bootstrap handler, whose
\* constructor draws the session's first opaque
Connected == issued # <<>>

\* C17: a session that is not stopped has no handler until a dial has
\* succeeded (construction, resolving, backoff, connecting); from then on it
\* has exactly one, the bootstrap handler until the session is ready and the
\* ready handler afterwards.
C17_HandlerOnceConnected ==
    ~stopped_ =>
        /\ handler_ \in {"none", "bootstrap", "normal"}
        /\ handler_ = "none" <=> ~Connected
        /\ handler_ = "bootstrap" <=> (Connected /\ ~bootstrapped_)
        /\ handler_ = "normal" <=> bootstrapped_
        /\ (resolve_op # "idle" \/ connect_op # "idle"
              \/ retry_backoff_ # "idle") => handler_ = "none"

\* the session went from no handler through the bootstrap handler to the
\* ready handler
C17_Witness ==
    /\ ~stopped_ /\ bootstrapped_ /\ handler_ = "normal"
    /\ Connected /\ done # <<>>

\* every event the io context or a caller can still deliver to the session,
\* applied to the state w
LaterEvents(w) ==
    {on_resolve(w, ec, n) : ec \in {Ok, "host_not_found"}, n \in Endpoints}
    \cup {on_connect(w, ec) : ec \in {Ok, "connection_refused"}}
    \cup {on_write(w, ec) : ec \in {Ok, "broken_pipe"}}
    \cup {on_read(w, msg, "OK") : msg \in ReadyFrames}
    \cup {on_read_failure(w), check_deadline(w),
          bootstrap_deadline_expired(w), retry_backoff_expired(w), stop(w)}
    \cup (IF w.handler_ = "normal" THEN {fetch_config(w)} ELSE {})
    \cup {update_configuration(w, Config(rev)) : rev \in ReadyRevs}
    \cup {update_collection_uid(w, path, uid) :
             path \in CollectionPaths, uid \in CollectionUids}
    \cup {initiate_bootstrap(w), do_connect(w, 1), do_read(w),
          do_write(w), flush(w)}

\* a stopped session: socket closed, no dial, resolve, read, write or timer
\* wait outstanding, and every later event leaves the state as it is
StoppedInert ==
    /\ ~socket_open_
    /\ resolve_op = "idle" /\ connect_op = "idle"
    /\ read_op = "idle" /\ write_op = "idle"
    /\ bootstrap_deadline_ = "idle" /\ retry_backoff_ = "idle"
    /\ heartbeat_timer_ = "idle"
    /\ ~connection_deadline_.waiting /\ ~connection_deadline_.queued
    /\ LET w == World IN \A x \in LaterEvents(w) : x = w

\* the steps callers of the session can still take on the state w: cancel(),
\* a new send() and the remaining steps of a send() that is under way
CallerSteps(w) ==
    {cancel(w, opaque, ec) : opaque \in UserOpaques, ec \in CancelErrors}
    \cup {write_and_subscribe(w, t, opaque, op) :
             t \in {u \in Threads : w.pc[u] = "idle"},
             opaque \in UserOpaques, op \in UserOps}
    \cup {write_and_subscribe_emplace(w, t) :
             t \in {u \in Threads : w.pc[u] = "emplace"}}
    \cup {write_and_subscribe_write(w, t) :
             t \in {u \in Threads : w.pc[u] = "write"}}
    \cup {write_and_subscribe_pend(w, t) :
             t \in {u \in Threads : w.pc[u] = "pend"}}

\* C19: stopped is terminal. In a stopped session the socket is closed and
\* nothing is outstanding; every later event (resolve or connect result, read
\* or write completion, timer expiry, configuration or collection-id update)
\* changes no state; and the calls that can still change state, those of
\* send(), leave the session stopped with its socket closed, put nothing on
\* the wire, do not invoke the bootstrap continuation and invoke a
\* continuation only because send() found the session stopped.
C19_StoppedTerminal ==
    stopped_ =>
        /\ StoppedInert
        /\ LET w == World
           IN  \A x \in CallerSteps(w) :
                  /\ x.stopped_ /\ ~x.socket_open_
                  /\ x.resolve_op = "idle" /\ x.connect_op = "idle"
                  /\ x.read_op = "idle" /\ x.write_op = "idle"
                  /\ x.wire = w.wire /\ x.done = w.done
                  /\ \A i \in (Len(w.fired) + 1)..Len(x.fired) :
                        x.fired[i].by = "send"

\* a session stopped while ready with a write under way, and stop() has been
\* called on it again
C19_Witness ==
    /\ stopped_ /\ handler_ = "normal" /\ writing_buffer_ # <<>>
    /\ "stop" \in noop_calls /\ StoppedInert

\* C20: in the ready state no received frame, whatever its magic, opcode,
\* status and opaque, stops the session: after the frame was handled the
\* session is still ready with the ready handler, and every continuation
\* registered under another opaque is still registered.
C20_FramesKeepReady ==
    (Ready /\ read_op = "wait") =>
        \A msg \in ReadyFrames :
            LET w == on_read([World EXCEPT !.read_op = "idle"], msg, "OK")
            IN  /\ ~w.stopped_ /\ ~w.crashed
                /\ w.bootstrapped_ /\ w.handler_ = "normal"
                /\ ~w.handler_stopped_
                /\ \A o \in (DOMAIN command_handlers_) \ {msg.opq} :
                      /\ o \in DOMAIN w.command_handlers_
                      /\ w.command_handlers_[o] = command_handlers_[o]

\* the bootstrap continuation was invoked with request-canceled
Canceled == [ec |-> "request_canceled", cfg |-> NoConfig]

\* C21: while the bootstrap handler or the ready handler is current, a read
\* completion with a transport error, a parser failure and a write completion
\* with a transport error each stop the session; every continuation
\* registered at that moment is invoked once more, with request-canceled, the
\* registry is emptied, and a bootstrap continuation not yet invoked receives
\* request-canceled.
C21_TransportErrorStops ==
    [][(/\ ~stopped_ /\ handler_ \in {"bootstrap", "normal"}
        /\ (OnReadFailure \/ OnWriteFailed)) =>
          /\ stopped_' /\ ~socket_open_'
          /\ command_handlers_' = EmptyMap
          /\ Len(fired') = Len(fired) + Cardinality(DOMAIN command_handlers_)
          /\ \A o \in DOMAIN command_handlers_ :
                \E i \in (Len(fired) + 1)..Len(fired') :
                    fired'[i] = [id |-> command_handlers_[o],
                                 ec |-> "request_canceled", by |-> "stop"]
          /\ done' = IF bootstrapped_ THEN done ELSE Append(done, Canceled)
      ]_vars

\* a transport error stopped the session during bootstrap with a queued
\* request registered, or when ready with two requests registered
C21_Witness ==
    /\ stopped_
    /\ \/ ~bootstrapped_ /\ \E i \in 1..Len(fired) : fired[i].by = "stop"
       \/ bootstrapped_
            /\ Cardinality({i \in 1..Len(fired) : fired[i].by = "stop"}) >= 2

\* the rules of map_status_code over every routable opcode and every status
StatusRules ==
    \A opcode \in RoutableOps, status \in AllStatuses :
        LET ec == map_status_code(opcode, status)
        IN  /\ status = "exists" =>
                  ec = IF opcode = "insert" THEN "document_exists"
                       ELSE "cas_mismatch"
            /\ status \in SuccessStatuses <=> ec = Ok
            /\ status \in NoRuleStatuses <=> ec = "protocol_error"
            /\ (status \in ErrorStatuses /\ status # "exists") =>
                  ec \notin {Ok, "protocol_error", "document_exists",
                             "cas_mismatch"}
            /\ status # "exists" => ec = map_status_code("insert", status)

\* C22: map_status_code gives a result for every opcode and status; exists
\* gives document-exists for insert and cas-mismatch for every other opcode;
\* success and the sub-document multi-path-failure statuses give no error;
\* not-my-vbucket, auth-continue and every status without a rule give
\* protocol-error; only for exists does the result depend on the opcode. A
\* continuation invoked by a response receives such a result.
C22_StatusMapping ==
    /\ StatusRules
    /\ \A i \in 1..Len(fired) :
          fired[i].by = "response" =>
              \E opcode \in StatusOps, status \in SentStatuses :
                  fired[i].ec = map_status_code(opcode, status)

\* one response with status exists and opcode insert and one with status
\* exists and another opcode have been handled
C22_Witness ==
    /\ \E i \in 1..Len(fired) : fired[i].ec = "document_exists"
    /\ \E i \in 1..Len(fired) : fired[i].ec = "cas_mismatch"

\* the bootstrap handler is current and handles what is read
Bootstrapping ==
    /\ handler_ = "bootstrap" /\ ~handler_stopped_ /\ handler_session_
    /\ ~stopped_ /\ ~crashed

\* a get-cluster-config response
ConfigFrame(status, rev) ==
    [magic |-> "client_response", op |-> "get_cluster_config",
     opq |-> opaque_, status |-> status, features |-> {}, rev |-> rev,
     bucket |-> "", cfg_bucket |-> ""]

\* C23: a get-cluster-config response handled by the bootstrap handler
\* completes bootstrap. Status success installs the received configuration
\* and completes with no error; status no-bucket on a session without a
\* bucket clears supports_gcccp_, installs a configuration of revision 0 and
\* completes with no error, and the ready handler then issues no refresh;
\* every other case completes with protocol-error and stops the session.
\* supports_gcccp_ is false only after that fallback.
C23_ConfigCompletesBootstrap ==
    /\ Bootstrapping =>
          \A status \in StatusesFor("get_cluster_config"), rev \in Revs :
              LET w == bootstrap_handle(World, ConfigFrame(status, rev), "OK")
              IN  IF status = "success"
                  THEN /\ w.config_ = Config(rev)
                       /\ w.done = Append(done, [ec |-> Ok, cfg |-> Config(rev)])
                       /\ w.bootstrapped_ /\ ~w.stopped_
                       /\ w.handler_ = "normal"
                       /\ w.supports_gcccp_ = supports_gcccp_
                  ELSE IF status = "no_bucket" /\ bucket_name_ = ""
                  THEN /\ ~w.supports_gcccp_
                       /\ w.config_ = Config(0)
                       /\ w.done = Append(done, [ec |-> Ok, cfg |-> Config(0)])
                       /\ w.bootstrapped_ /\ ~w.stopped_
                       /\ w.handler_ = "normal"
                       /\ w.heartbeat_timer_ = "idle" /\ w.issued = issued
                  ELSE /\ w.done = Append(done, [ec |-> "protocol_error",
                                                 cfg |-> NoConfig])
                       /\ w.stopped_ /\ ~w.bootstrapped_
                       /\ w.config_ = config_
                       /\ w.supports_gcccp_ = supports_gcccp_
    /\ ~supports_gcccp_ =>
          /\ bucket_name_ = "" /\ config_ = Config(0)
          /\ done = <<[ec |-> Ok, cfg |-> Config(0)]>>

\* the fallback was taken: the session is ready without gcccp
C23_Witness ==
    /\ ~supports_gcccp_ /\ bootstrapped_ /\ ~stopped_
    /\ handler_ = "normal" /\ config_ = Config(0)

\* the notification msg applies to the session: its configuration names no
\* bucket and its bucket field is empty, or the session has a bucket and the
\* bucket field is that bucket
Applies(msg) ==
    \/ (msg.cfg_bucket = "" /\ msg.bucket = "")
    \/ (bucket_name_ # "" /\ msg.bucket # "" /\ bucket_name_ = msg.bucket)

\* C24: in the ready state a cluster-map-change-notification has the effect
\* of update_configuration with its configuration when it applies to the
\* session and no effect otherwise, so a revision greater than the stored one
\* is adopted if and only if the notification applies; a server request with
\* another opcode has no effect.
C24_NotificationBucket ==
    Ready =>
        \A msg \in ServerRequests :
            LET w == normal_handle(World, msg)
            IN  IF msg.op = "cluster_map_change_notification"
                THEN /\ Applies(msg) =>
                           w = update_configuration(World, Config(msg.rev))
                     /\ ~Applies(msg) => w = World
                     /\ msg.rev > config_.rev =>
                           /\ Applies(msg) => w.config_ = Config(msg.rev)
                           /\ ~Applies(msg) => w.config_ = config_
                ELSE w = World

\* a session with a bucket adopted the configuration of a notification
C24_Witness ==
    /\ Ready /\ bucket_name_ = "b" /\ config_ = Config(3)

\* a response of the SASL exchange
SaslFrame(op, status) ==
    [magic |-> "client_response", op |-> op, opq |-> opaque_,
     status |-> status, features |-> {}, rev |-> 0, bucket |-> "",
     cfg_bucket |-> ""]

\* the frames handed to write() so far, in the state w
Queued(w) == w.wire \o w.output_buffer_

\* in the state w one more request than now has been written, a sasl_step
StepSent(w) ==
    /\ Len(Queued(w)) = Len(Pipeline) + 1
    /\ Queued(w)[Len(Queued(w))].op = "sasl_step"
    /\ ~w.stopped_ /\ ~w.authenticated_

\* bootstrap has failed in the state w with authentication-failure
AuthFailed(w) ==
    /\ w.stopped_ /\ ~w.authenticated_
    /\ w.done = Append(done, [ec |-> "authentication_failure",
                              cfg |-> NoConfig])

Opcodes(frames) == [i \in 1..Len(frames) |-> frames[i].op]

\* the requests auth_success writes for a feature set and a bucket name
AfterAuth(features, bucket) ==
    (IF "xerror" \in features THEN <<"get_error_map">> ELSE <<>>)
    \o (IF bucket # "" THEN <<"select_bucket">> ELSE <<>>)
    \o <<"get_cluster_config">>

\* C26: the step that makes the bootstrap handler current writes hello,
\* sasl_list_mechs and sasl_auth, in this order and nothing else; the step
\* that authenticates the session writes get_error_map if and only if xerror
\* is a supported feature, then select_bucket if and only if a bucket name
\* is configured, then get_cluster_config; while the session is not
\* authenticated none of these three requests has been written.
C26_RequestOrder ==
    [][/\ (handler_ = "none" /\ handler_' = "bootstrap") =>
             Opcodes(PipelineNext) =
                 Opcodes(Pipeline) \o <<"hello", "sasl_list_mechs", "sasl_auth">>
       /\ (~authenticated_ /\ authenticated_') =>
             Opcodes(PipelineNext) =
                 Opcodes(Pipeline) \o AfterAuth(supported_features_, bucket_name_)
       /\ ~authenticated_' =>
             \A i \in 1..Len(PipelineNext) :
                 PipelineNext[i].op \notin
                     {"get_error_map", "select_bucket", "get_cluster_config"}
      ]_vars

\* a session with xerror and a bucket has written all six requests
C26_Witness ==
    /\ authenticated_ /\ "xerror" \in supported_features_
    /\ bucket_name_ # ""
    /\ Len(Pipeline) >= 6
    /\ [i \in 1..6 |-> Pipeline[i].op] =
          <<"hello", "sasl_list_mechs", "sasl_auth", "get_error_map",
            "select_bucket", "get_cluster_config">>

\* statuses and collaborator results tried on every negotiation step
TriedStatuses ==
    {"success", "auth_continue", "auth_error", "no_access", "internal",
     "not_found"}

\* the error of the negotiation step that a response fails, "" when the
\* response does not fail its step
StepError(op, status, sasl) ==
    CASE op = "hello" /\ status # "success" -> "handshake_failure"
      [] op = "sasl_list_mechs" /\ status # "success" ->
            "authentication_failure"
      [] op = "sasl_auth" /\ status \notin {"success", "auth_continue"} ->
            "authentication_failure"
      [] op = "sasl_auth" /\ status = "auth_continue"
            /\ sasl \notin {"OK", "CONTINUE"} -> "authentication_failure"
      [] op = "sasl_step" /\ status # "success" -> "authentication_failure"
      [] op = "get_error_map" /\ status # "success" -> "protocol_error"
      [] op = "select_bucket" /\ status # "success" -> "bucket_not_found"
      [] OTHER -> ""

\* C27: a response that fails its negotiation step invokes the bootstrap
\* continuation once, with the error of that step and not with
\* request-canceled, and stops the session; every continuation registered
\* for a queued frame is invoked with request-canceled and the registry is
\* emptied. A response that does not fail its step does neither.
C27_NegotiationFailure ==
    Bootstrapping =>
        \A op \in {"hello", "sasl_list_mechs", "sasl_auth", "sasl_step",
                   "get_error_map", "select_bucket"},
           status \in TriedStatuses, sasl \in SaslCodes :
            LET w == bootstrap_handle(World, SaslFrame(op, status), sasl)
                ec == StepError(op, status, sasl)
            IN  IF ec # ""
                THEN /\ w.done = Append(done, [ec |-> ec, cfg |-> NoConfig])
                     /\ w.stopped_ /\ ~w.bootstrapped_ /\ ~w.socket_open_
                     /\ w.command_handlers_ = EmptyMap
                     /\ Len(w.fired) =
                           Len(fired) + Cardinality(DOMAIN command_handlers_)
                     /\ \A o \in DOMAIN command_handlers_ :
                           \E i \in (Len(fired) + 1)..Len(w.fired) :
                               w.fired[i] = [id |-> command_handlers_[o],
                                             ec |-> "request_canceled",
                                             by |-> "stop"]
                ELSE /\ w.done = done /\ ~w.stopped_
                     /\ w.fired = fired
                     /\ w.command_handlers_ = command_handlers_

\* hello failed while a queued request was registered: the bootstrap
\* continuation got handshake-failure, the request request-canceled
C27_Witness ==
    /\ stopped_
    /\ done = <<[ec |-> "handshake_failure", cfg |-> NoConfig]>>
    /\ \E i \in 1..Len(fired) :
          fired[i].ec = "request_canceled" /\ fired[i].by = "stop"

\* opcodes outside the negotiation: requests of the data plane, and
\* "unknown" for an opcode byte that is_valid_client_opcode rejects
ForeignOps == {"get", "upsert", "subdoc_multi_lookup", "unknown"}

\* C28: while the bootstrap handler is current, a frame whose opcode is none
\* of hello, sasl_list_mechs, sasl_auth, sasl_step, get_error_map,
\* select_bucket and get_cluster_config ends bootstrap: the bootstrap
\* continuation receives protocol-error and the session stops.
C28_ForeignOpcode ==
    Bootstrapping =>
        \A op \in ForeignOps, status \in {"success", "internal"} :
            LET w == on_read([World EXCEPT !.read_op = "idle"],
                             SaslFrame(op, status), "OK")
            IN  /\ ~w.crashed
                /\ w.stopped_
                /\ w.done = Append(done, [ec |-> "protocol_error",
                                          cfg |-> NoConfig])

\* the step writes exactly one more request, a get_cluster_config
RefreshWritten ==
    Opcodes(PipelineNext) = Opcodes(Pipeline) \o <<"get_cluster_config">>

\* C29: the step that makes a gcccp-capable session ready writes a
\* get_cluster_config request and arms the refresh timer; every expiry of the
\* timer on a session that is not stopped writes another one and arms the
\* timer again; a session that is not gcccp-capable writes no request and
\* arms no timer when it becomes ready or afterwards; once the ready handler
\* is stopped the timer is idle, nothing more is written, and fetch_config
\* changes nothing.
C29_Refresh ==
    [][/\ (~bootstrapped_ /\ bootstrapped_') =>
             IF supports_gcccp_'
             THEN RefreshWritten /\ heartbeat_timer_' = "wait"
             ELSE PipelineNext = Pipeline /\ heartbeat_timer_' = "idle"
       /\ (bootstrapped_ /\ ~stopped_ /\ refreshes' # refreshes) =>
             /\ supports_gcccp_ /\ heartbeat_timer_ = "wait"
             /\ RefreshWritten /\ heartbeat_timer_' = "wait"
       /\ (bootstrapped_ /\ ~supports_gcccp_) =>
             PipelineNext = Pipeline /\ heartbeat_timer_' = "idle"
       /\ (handler_ = "normal" /\ handler_stopped_) =>
             /\ PipelineNext = Pipeline /\ heartbeat_timer_' = "idle"
             /\ fetch_config(World) = World
      ]_vars

\* the refresh timer has expired on a ready session and is armed again
C29_Witness ==
    /\ bootstrapped_ /\ ~stopped_ /\ supports_gcccp_
    /\ refreshes >= 1 /\ heartbeat_timer_ = "wait"
    /\ Cardinality({i \in 1..Len(Pipeline) :
                       Pipeline[i].op = "get_cluster_config"}) >= 3

\* C30 as stated: the writing buffer is non-empty exactly while a write is
\* outstanding.
C30_WritingWhileOutstanding ==
    writing_buffer_ # <<>> <=> write_op = "wait"

\* C30 amended: no asynchronous write is started while another one is
\* outstanding; on a session that is not stopped the writing buffer is
\* non-empty exactly while a write is outstanding, and a stopped session has
\* no write outstanding whatever its writing buffer holds; after a producer
\* has appended a frame, do_write starts a write if and only if the writing
\* buffer is empty, and the write takes the whole output buffer.
C30_SingleWrite ==
    /\ ~overlap
    /\ ~stopped_ => (writing_buffer_ # <<>> <=> write_op = "wait")
    /\ stopped_ => write_op = "idle"
    /\ (~stopped_ /\ ~crashed) =>
          LET w0 == write(World, Frame("get", <<0, 101>>, 0))
              w == do_write(w0)
          IN  IF writing_buffer_ # <<>>
              THEN w = w0
              ELSE /\ w.write_op = "wait"
                   /\ w.writing_buffer_ = w0.output_buffer_
                   /\ w.output_buffer_ = <<>>
                   /\ w.wire = wire \o w0.output_buffer_

\* a producer appended a frame while a write was outstanding, and the frame
\* waits in the output buffer
C30_Witness ==
    /\ ~stopped_ /\ write_op = "wait" /\ writing_buffer_ # <<>>
    /\ \E i \in 1..Len(output_buffer_) : output_buffer_[i].id # 0

\* C31: while a dial is outstanding on a running session, the connect deadline
\* is armed and a check_deadline call is waiting on it (or already queued).
C31_DialUnderDeadline ==
    (~stopped_ /\ connect_op = "wait") =>
        /\ connection_deadline_.expiry # "max"
        /\ connection_deadline_.waiting \/ connection_deadline_.queued

\* a step that hands a candidate to the resolver
ResolveStarts ==
    resolve_op' = "wait" /\ (resolve_op # "wait" \/ OnResolveDial)

\* a step in which the resolution of a candidate fails, or the dial to the
\* last endpoint of a candidate fails
CandidateFails ==
    /\ ~stopped_
    /\ connect_op' # "wait"
    /\ OnResolveDial \/ (OnConnect /\ handler_' = "none")

\* C32: each resolve attempt takes the candidate under the cursor and moves
\* the cursor by one, the cursor moves at no other time; a failed candidate is
\* followed by the next one of the list; when the list is exhausted the
\* backoff timer is armed and no resolve or dial starts until it fires, and
\* the attempt that follows it takes the first candidate.
C32_CandidateOrder ==
    [][/\ ResolveStarts =>
            /\ origin_next_' = (IF RetryBackoffCallback THEN 1 ELSE origin_next_) + 1
            /\ origin_next_' - 1 \in 1..origin_nodes_
            /\ connect_op' # "wait" /\ retry_backoff_' # "wait"
       /\ ~ResolveStarts => origin_next_' = origin_next_
       /\ CandidateFails =>
            IF origin_next_ <= origin_nodes_
            THEN ResolveStarts
            ELSE retry_backoff_' = "wait" /\ resolve_op' = "idle"
       /\ (retry_backoff_ = "wait" /\ ~RetryBackoffCallback) =>
            resolve_op' # "wait" /\ connect_op' # "wait"
      ]_vars

\* both candidates of the list have failed, the second after a resolution to
\* two endpoints, and the session waits for the backoff timer
C32_Witness ==
    /\ ~stopped_ /\ retry_backoff_ = "wait"
    /\ origin_nodes_ = 2 /\ origin_next_ = 3 /\ endpoints_ = 2

\* C33: once the session is stopped, the current handler no longer holds its
\* back reference to the session.
C33_BackReferenceReleased ==
    (stopped_ /\ handler_ # "none") => ~handler_session_

\* the same for the paths other than a failure the bootstrap handler reports
C33_ReleasedUnlessCompleted ==
    (stopped_ /\ handler_ # "none" /\ handler_session_) =>
        /\ handler_ = "bootstrap" /\ handler_stopped_ /\ ~bootstrapped_
        /\ done # <<>> /\ done[Len(done)].ec \notin {Ok, "request_canceled", "unambiguous_timeout"}

\* continuation id runs for the first time in this step, invoked by code
\* path by
FirstRun(id, by) ==
    /\ Count(fired, id) = 0
    /\ Len(fired') > Len(fired)
    /\ fired'[Len(fired) + 1].id = id
    /\ fired'[Len(fired) + 1].by = by

\* C34: when a response invokes a continuation that sends again with the
\* opaque of its call, the inner send finds the opaque unregistered: its
\* continuation is registered under that opaque when the step ends, has not
\* been invoked, and its frame is in the write pipeline; the outer
\* continuation has run once.
C34_ReentrantSendOnResponse ==
    [][\A id \in DOMAIN continuations :
          (continuations[id] = "send" /\ FirstRun(id, "response")) =>
              LET O == sends[id].opq
                  inner == Len(sends) + 1
              IN  /\ Len(sends') = inner
                  /\ sends'[inner].opq = O
                  /\ sends'[inner].reg = "new"
                  /\ O \in DOMAIN command_handlers_'
                  /\ command_handlers_'[O] = inner
                  /\ Count(fired', id) = 1
                  /\ Count(fired', inner) = 0
                  /\ \E j \in 1..Len(PipelineNext) : PipelineNext[j].id = inner
      ]_vars

\* a response has invoked a continuation that sent again with its opaque,
\* and the continuation of the inner send is registered
C34_Witness ==
    \E id \in DOMAIN continuations :
    \E n \in 1..Len(fired) :
    \E inner \in 1..Len(sends) :
        /\ continuations[id] = "send"
        /\ fired[n].id = id /\ fired[n].by = "response"
        /\ sends[inner].t = "continuation" /\ sends[inner].reg = "new"
        /\ sends[inner].opq = sends[id].opq
        /\ sends[id].opq \in DOMAIN command_handlers_
        /\ command_handlers_[sends[id].opq] = inner

\* the frame of send number id waits in the output buffer
Waits(id) == \E j \in 1..Len(output_buffer_) : output_buffer_[j].id = id

\* C35: on a session that is not stopped, frames wait in the output buffer
\* only while a write is outstanding or a producer is about to flush; no
\* frame of a producer is in the write pipeline twice; and every frame of a
\* producer that waits in the output buffer is handed to the socket, unless
\* the session stops.
C35_EachFrameOnce ==
    /\ [](/\ (~stopped_ /\ output_buffer_ # <<>>) =>
               (write_op = "wait" \/ \E t \in Threads : pc[t] = "flush")
          /\ \A i, j \in 1..Len(Pipeline) :
               (Pipeline[i] = Pipeline[j]) => i = j)
    /\ \A id \in 1..MaxSends :
          Waits(id) ~> (stopped_ \/ OnWire(id) # {})

\* a producer has returned from write() and not yet called flush(), while the
\* completion of the previous write has taken its frame to the socket
C35_Witness ==
    \E t \in Threads :
        /\ ~stopped_ /\ pc[t] = "flush"
        /\ OnWire(arg[t]) # {}
        /\ output_buffer_ = <<>>

\* C36: the callback of the bootstrap deadline, run on a session that is
\* ready and not stopped, invokes nothing, stops nothing and returns.
C36_LateExpiryHarmless ==
    [][(BootstrapDeadlineCallback /\ bootstrapped_ /\ ~stopped_) =>
          (done' = done /\ ~stopped_' /\ ~crashed')]_vars

\* C37: once the bootstrap continuation has been invoked with no error on a
\* session with a bucket, the bucket is selected and the session is
\* authenticated.
C37_SelectedBeforeReady ==
    \A n \in 1..Len(done) :
        (done[n].ec = Ok /\ bucket_name_ # "") =>
            (bucket_selected_ /\ authenticated_)

\* the half of C37 that does not depend on the arrival order
C37_AuthenticatedBeforeReady ==
    \A n \in 1..Len(done) : done[n].ec = Ok => authenticated_

\* C38: once the session is ready and no producer is inside
\* write_and_subscribe, no frame is left in the pending buffer.
C38_PendingFlushedWhenReady ==
    (bootstrapped_ /\ ~stopped_ /\ \A t \in Threads : pc[t] = "idle") =>
        pending_buffer_ = <<>>

\* C39: the continuation of a send made with an opaque that is already
\* registered is invoked at most once, and has been invoked once the session
\* is stopped, like that of a send with a fresh opaque.
C39_DuplicateOpaque ==
    \A id \in 1..Len(sends) :
        sends[id].reg = "dup" =>
            /\ FiredCount(id) <= 1
            /\ stopped_ => FiredCount(id) = 1

\* C40: no continuation runs twice, and the continuation of a send made from
\* inside a continuation stays registered until it is invoked.
C40_ReentrantCancel ==
    /\ \A id \in 1..Len(sends) : FiredCount(id) <= 1
    /\ \A inner \in 1..Len(sends) :
          (sends[inner].t = "continuation" /\ FiredCount(inner) = 0) =>
              /\ sends[inner].opq \in DOMAIN command_handlers_
              /\ command_handlers_[sends[inner].opq] = inner

\* the part of C40 about stop(): a continuation that stop() invokes runs
\* once, and what it sends or cancels from inside is answered at once or
\* ignored
C40_ReentrantStop ==
    \A id \in DOMAIN continuations :
    \A n \in 1..Len(fired) :
        (fired[n].id = id /\ fired[n].by = "stop") =>
            /\ FiredCount(id) = 1
            /\ \A inner \in 1..Len(sends) :
                  (sends[inner].t = "continuation"
                   /\ sends[inner].opq = sends[id].opq) =>
                      (sends[inner].reg = "sync" /\ FiredCount(inner) = 1)

====
